---- MODULE Spec2Model ----
(***************************************************************************)
(* Model of the base-building economy of src/app/game/page.tsx: the grid   *)
(* of cell codes, the resource pool ("bits"), the uncollected yield map    *)
(* of the mines, the selected building, and the handlers that change them  *)
(* (production tick, collect, upgrade, cell click, drop of a shop item or  *)
(* of a grid building); and of the sector page of                          *)
(* src/app/game/sector/[id]/page.tsx: the seeded generator of a sector's   *)
(* base and the arena session played on it (two agents moving by half      *)
(* cells, leaving trails).                                                 *)
(***************************************************************************)
EXTENDS Integers, Sequences, FiniteSets, TLC

VARIABLES
    grid,             \* useState<number[]>: index 0..63 -> cell code
    bits,             \* useState<number>: the resource pool
    mineUncollected,  \* useState<Record<number, number>>: sparse index -> amount
    activeElement,    \* useState<{name, level, index} | null>: the selection
    ticks,            \* number of production ticks run so far (bounded)
    capGrid,          \* input of the storage-capacity computation
    capResult,        \* its results so far: <<>> before it ran, then <<capacity>>
    sectorId,         \* sector page: the route parameter, as char codes
    sectorGrid,       \* sector page: useState<number[]> grid, <<>> before the effect
    sectorBits,       \* sector page: useState<number> bits
    genRuns,          \* the runs of generateRandomBase so far, with their results
    playerPos,        \* useState<Vec | null>, coordinates doubled
    playerDir,        \* useState<Direction>
    playerTrail,      \* useState<Vec[]>
    opponentPos,
    opponentDir,
    opponentTrail,
    opponentDead,     \* useState<boolean>
    gameOver,
    didWin,
    started,
    winRecorded,      \* winRecordedRef.current
    sectorItem,       \* localStorage item "sector" as char codes, <<>> when absent
    steps,            \* number of interval callbacks run in this session (bounded)
    storage,          \* localStorage items "grid", "bits", "mineUncollected" as
                      \* char codes, <<>> when absent
    loadEffect,       \* the load effect of the base page: "pending", "done" or
                      \* "threw"
    lookups,          \* the calls of getCellValueByName so far, with the code
                      \* returned and cellValueMap[code]
    pick              \* a call of pickRandomIndices step by step: its
                      \* arguments, locals and position

ecoVars == <<grid, bits, mineUncollected, activeElement, ticks>>
capVars == <<capGrid, capResult>>
genVars == <<sectorId, sectorGrid, sectorBits, genRuns>>
arenaVars == <<playerPos, playerDir, playerTrail, opponentPos, opponentDir,
               opponentTrail, opponentDead, gameOver, didWin, started,
               winRecorded, sectorItem, steps>>

loadVars == <<storage, loadEffect>>
catVars == <<lookups>>
pickVars == <<pick>>

vars == <<ecoVars, capVars, genVars, arenaVars, loadVars, catVars, pickVars>>

----------------------------------------------------------------------------
(* Bounds of the model *)

\* number of production ticks in one behaviour
MaxTicks == 2

\* length of the grids the capacity computation is applied to
CapLen == 3

\* the sector pages visited are those of sectors 1..MaxSectorId
MaxSectorId == 30

\* number of runs of the generator in one behaviour
MaxRuns == 2

\* number of interval callbacks in one arena session
MaxSteps == 5

\* no session is started once the persisted sector id has reached MaxSector
MaxSector == 3

----------------------------------------------------------------------------
(* Building catalog and constants *)

GridSize == 64

NoLevel == 0                \* `level` absent in a CellDef
NoName == "<undefined>"     \* `def?.name` of an index outside cellValueMap

cellValueMap ==
    << [name |-> "",            level |-> NoLevel],
       [name |-> "grid-hall",   level |-> 1],
       [name |-> "bit-storage", level |-> 1],
       [name |-> "bit-mine",    level |-> 1],
       [name |-> "grid-hall",   level |-> 2],
       [name |-> "bit-storage", level |-> 2],
       [name |-> "bit-mine",    level |-> 2],
       [name |-> "bit-mine",    level |-> 3],
       [name |-> "lab",         level |-> 1],
       [name |-> "portal",      level |-> 1] >>

\* cellValueMap[v] of the source (0-based); out of range gives undefined
DefAt(v) ==
    IF v \in 0..(Len(cellValueMap) - 1)
    THEN cellValueMap[v + 1]
    ELSE [name |-> NoName, level |-> NoLevel]

\* def.level ?? 1
LevelOf(def) == IF def.level = NoLevel THEN 1 ELSE def.level

\* truthiness of def?.name
HasName(def) == def.name # "" /\ def.name # NoName

\* def?.name.includes("storage"): of the catalog names only "bit-storage"
\* contains the substring
IncludesStorage(def) == def.name = "bit-storage"

Names == {"grid-hall", "bit-storage", "bit-mine", "lab", "portal"}

upgradeCostPerLevel ==
    [n \in Names |->
        CASE n = "bit-storage" -> 1000
          [] n = "bit-mine"    -> 900
          [] n = "grid-hall"   -> 2000
          [] n = "lab"         -> 2000
          [] n = "portal"      -> 2000]

availableBuildingPerGridHall ==
    << ( "bit-storage" :> [level |-> 1, count |-> 2] @@
         "bit-mine"    :> [level |-> 1, count |-> 2] @@
         "grid-hall"   :> [level |-> 2, count |-> 1] ),
       ( "bit-storage" :> [level |-> 2, count |-> 2] @@
         "bit-mine"    :> [level |-> 3, count |-> 3] @@
         "lab"         :> [level |-> 1, count |-> 1] @@
         "grid-hall"   :> [level |-> 3, count |-> 1] @@
         "portal"      :> [level |-> 1, count |-> 1] ) >>

bitStorageCapacityPerLevel == 2000

\* bits produced per second and mine level
ProducePerLevel == 10

----------------------------------------------------------------------------
(* Helpers of the page *)

\* m[k] ?? 0
Get(m, k) == IF k \in DOMAIN m THEN m[k] ELSE 0

\* { ...m, [k]: v }
Put(m, k, v) == [x \in DOMAIN m \cup {k} |-> IF x = k THEN v ELSE m[x]]

\* delete m[k]
Delete(m, k) == [x \in DOMAIN m \ {k} |-> m[x]]

EmptyMap == [x \in {} |-> 0]

\* findIndex over cellValueMap; -1 when no entry matches
getCellValueByName(name, level) ==
    LET hits == {v \in 0..(Len(cellValueMap) - 1) :
                    /\ cellValueMap[v + 1].name = name
                    /\ LevelOf(cellValueMap[v + 1]) = level}
    IN  IF hits = {} THEN -1
        ELSE CHOOSE v \in hits : \A w \in hits : v <= w

NoCost == -1   \* getUpgradeCost returning null

getUpgradeCost(name, nextLevel) ==
    IF name \notin DOMAIN upgradeCostPerLevel \/ upgradeCostPerLevel[name] = 0
    THEN NoCost
    ELSE upgradeCostPerLevel[name] * nextLevel

getPriceForItem(item) ==
    IF item \in DOMAIN upgradeCostPerLevel THEN upgradeCostPerLevel[item] ELSE 0

\* cellValueMap[g[i]]?.name, "" for an empty or unknown cell
NameAt(g, i) == IF g[i] = 0 THEN "" ELSE IF HasName(DefAt(g[i])) THEN DefAt(g[i]).name ELSE ""

\* the indexes, in grid order, of the cells named name
RECURSIVE Ascending(_)
Ascending(S) ==
    IF S = {} THEN <<>>
    ELSE LET m == CHOOSE x \in S : \A y \in S : x <= y
         IN  <<m>> \o Ascending(S \ {m})

highestGridHallLevel(g) ==
    LET levels == {LevelOf(DefAt(g[i])) :
                      i \in {j \in DOMAIN g : NameAt(g, j) = "grid-hall"}}
    IN  IF levels = {} THEN 0
        ELSE CHOOSE l \in levels : \A k \in levels : k <= l

\* allowedCountsByItem adding up the counts of the records of hub levels
\* 1..highest
allowedCountsByItem_sumTiers(g) ==
    LET h == highestGridHallLevel(g)
        tiers == 1..(IF h < Len(availableBuildingPerGridHall)
                     THEN h ELSE Len(availableBuildingPerGridHall))
        listed == UNION {DOMAIN availableBuildingPerGridHall[t] : t \in tiers}
        countAt(t, n) == IF n \in DOMAIN availableBuildingPerGridHall[t]
                         THEN availableBuildingPerGridHall[t][n].count ELSE 0
    IN  [n \in listed |->
            countAt(1, n) + (IF 2 \in tiers THEN countAt(2, n) ELSE 0)]

\* name -> count of the record of the highest hub level (entries with count > 0)
allowedCountsByItem(g) ==
    LET h == highestGridHallLevel(g)
    IN  IF h <= 0 \/ h > Len(availableBuildingPerGridHall)
        THEN EmptyMap
        ELSE LET availability == availableBuildingPerGridHall[h]
             IN  [n \in {k \in DOMAIN availability : availability[k].count > 0}
                    |-> availability[n].count]

\* name -> number of cells holding it
placedCountsByItem(g) ==
    LET occupied == {j \in DOMAIN g : NameAt(g, j) # ""}
        present == {NameAt(g, i) : i \in occupied}
    IN  [n \in present |-> Cardinality({i \in occupied : NameAt(g, i) = n})]

\* name -> highest level listed for it in the records of hub levels 1..highest
maxLevelByBuilding(g) ==
    LET h == highestGridHallLevel(g)
        tiers == 1..(IF h < Len(availableBuildingPerGridHall)
                     THEN h ELSE Len(availableBuildingPerGridHall))
        listed == UNION {DOMAIN availableBuildingPerGridHall[t] : t \in tiers}
        lv(n) == {availableBuildingPerGridHall[t][n].level :
                     t \in {u \in tiers : n \in DOMAIN availableBuildingPerGridHall[u]}}
    IN  [n \in listed |-> CHOOSE l \in lv(n) : \A k \in lv(n) : k <= l]

\* the forEach body over the cells of `cells` (a sequence of indexes)
RECURSIVE capacityFrom(_, _, _)
capacityFrom(g, cells, capacity) ==
    IF cells = <<>> THEN capacity
    ELSE capacityFrom(g, Tail(cells),
             capacity + LevelOf(DefAt(g[Head(cells)])) * bitStorageCapacityPerLevel)

\* totalStorageCapacity counting every building, not the storages only
totalStorageCapacity_anyBuilding(g) ==
    capacityFrom(g, Ascending({i \in DOMAIN g : HasName(DefAt(g[i]))}), 0)

\* grid.forEach in index order, adding level * 2000 for every cell whose
\* name includes "storage"
totalStorageCapacity(g) ==
    capacityFrom(g, Ascending({i \in DOMAIN g :
                                  g[i] # 0 /\ IncludesStorage(DefAt(g[i]))}), 0)

RECURSIVE SumValues(_)
SumValues(m) ==
    IF DOMAIN m = {} THEN 0
    ELSE LET k == CHOOSE x \in DOMAIN m : TRUE
         IN  m[k] + SumValues(Delete(m, k))

\* Object.values(mineUncollected).reduce((a, b) => a + b, 0)
totalUncollected(mu) == SumValues(mu)

remainingPurchasesByItem(g) ==
    LET allowed == allowedCountsByItem(g)
        placed == placedCountsByItem(g)
    IN  [n \in DOMAIN allowed |->
            IF allowed[n] - Get(placed, n) > 0 THEN allowed[n] - Get(placed, n) ELSE 0]

Min(a, b) == IF a <= b THEN a ELSE b
Max(a, b) == IF a >= b THEN a ELSE b

----------------------------------------------------------------------------
(* Sector page: 32-bit arithmetic of the seeded generator.  A 32-bit word   *)
(* is kept as its two 16-bit halves [hi, lo]; every operation is taken      *)
(* modulo 2^32 as the int32/uint32 conversions of the source do.            *)

Word(hi, lo) == [hi |-> hi, lo |-> lo]

RECURSIVE Xor16(_, _, _)
Xor16(a, b, n) ==
    IF n = 0 THEN 0
    ELSE ((a + b) % 2) + 2 * Xor16(a \div 2, b \div 2, n - 1)

RECURSIVE Or16(_, _, _)
Or16(a, b, n) ==
    IF n = 0 THEN 0
    ELSE (IF a % 2 = 1 \/ b % 2 = 1 THEN 1 ELSE 0) + 2 * Or16(a \div 2, b \div 2, n - 1)

\* x ^ y
BitXor(x, y) == Word(Xor16(x.hi, y.hi, 16), Xor16(x.lo, y.lo, 16))

\* x | k for a constant k < 2^16
BitOr(x, k) == Word(x.hi, Or16(x.lo, k, 16))

\* x >>> k for 0 < k < 16
ShiftRight(x, k) ==
    Word(x.hi \div 2^k, (x.lo \div 2^k) + (x.hi % 2^k) * 2^(16 - k))

\* (x + y) mod 2^32
Add32(x, y) ==
    Word((x.hi + y.hi + (x.lo + y.lo) \div 65536) % 65536, (x.lo + y.lo) % 65536)

\* the 32-bit product of two 16-bit numbers, from their 8-bit halves
Mul16(a, b) ==
    LET p0 == (a % 256) * (b % 256)
        p1 == (a \div 256) * (b % 256) + (a % 256) * (b \div 256)
        p2 == (a \div 256) * (b \div 256)
        low == p0 + (p1 % 256) * 256
    IN  Word(p2 + p1 \div 256 + low \div 65536, low % 65536)

\* Math.imul(x, y): the low 32 bits of the product
imul(x, y) ==
    LET ll == Mul16(x.lo, y.lo)
    IN  Word((ll.hi + Mul16(x.hi, y.lo).lo + Mul16(x.lo, y.hi).lo) % 65536, ll.lo)

FnvOffset == Word(33052, 40389)      \* 2166136261
FnvPrime == Word(256, 403)           \* 16777619
MulberryStep == Word(27947, 31221)   \* 0x6d2b79f5

\* s is the string as the sequence of its char codes
RECURSIVE hashFrom(_, _)
hashFrom(h, s) ==
    IF s = <<>> THEN h
    ELSE hashFrom(imul(BitXor(h, Word(0, Head(s))), FnvPrime), Tail(s))

stringToSeed(s) == hashFrom(FnvOffset, s)

\* one call of the closure mulberry32 returns: the closure variable `a`
\* after the call (mod 2^32) and the numerator of the result over 2^32.
\* The statements of the closure are the operators of the LET, the last one
\* first, each taking the values the statements before it assigned
mulberry32(a) ==
    LET returned(a1, t2) == [a |-> a1, value |-> BitXor(t2, ShiftRight(t2, 14))]
        mixed(a1, t1) ==
            returned(a1, BitXor(t1, Add32(t1, imul(BitXor(t1, ShiftRight(t1, 7)),
                                                   BitOr(t1, 61)))))
        stepped(a1) == mixed(a1, imul(BitXor(a1, ShiftRight(a1, 15)), BitOr(a1, 1)))
    IN  stepped(Add32(a, MulberryStep))

\* Math.floor(v / 2^32 * m) for 0 < m < 2^15; the product is exact in a double
FloorTimes(v, m) == (v.hi * m + (v.lo * m) \div 65536) \div 65536

\* v / 2^32 < num / den.  The thresholds of the source (0.25, 0.15, 0.1) are
\* doubles, and x / 2^32 is below the double exactly when it is below the
\* fraction, no x / 2^32 lying between the two
LessThan(v, num, den) == FloorTimes(v, den) < num

----------------------------------------------------------------------------
(* Sector page: the generator *)

\* the while loop of pickRandomIndices
RECURSIVE pickLoop(_, _, _, _, _)
pickLoop(a, result, taken, count, maxExclusive) ==
    IF Len(result) < count /\ Cardinality(taken) < maxExclusive
    THEN LET picked(d, idx) ==
                 IF idx \notin taken
                 THEN pickLoop(d.a, Append(result, idx), taken \cup {idx},
                               count, maxExclusive)
                 ELSE pickLoop(d.a, result, taken, count, maxExclusive)
             drawn(d) == picked(d, FloorTimes(d.value, maxExclusive))
         IN  drawn(mulberry32(a))
    ELSE [result |-> result, a |-> a]

\* no call of pickRandomIndices is being followed
NoPick == [count |-> 0, maxExclusive |-> 0, exclude |-> {}, result |-> <<>>,
           taken |-> {}, pc |-> "none"]

\* the call on entry: result = [], taken = new Set(exclude)
pickEntered(count, maxExclusive, exclude) ==
    [count |-> count, maxExclusive |-> maxExclusive, exclude |-> exclude,
     result |-> <<>>, taken |-> exclude, pc |-> "while"]

\* the condition of the while loop
pickContinues(p) ==
    Len(p.result) < p.count /\ Cardinality(p.taken) < p.maxExclusive

\* the body of the while loop keeping `taken` as it was
pickBody_forgetsTaken(p, idx) ==
    IF idx \notin p.taken
    THEN [p EXCEPT !.result = Append(p.result, idx)]
    ELSE p

\* the body of the while loop with idx drawn
pickBody(p, idx) ==
    IF idx \notin p.taken
    THEN [p EXCEPT !.taken = p.taken \cup {idx}, !.result = Append(p.result, idx)]
    ELSE p

\* pickRandomIndices starting from an empty `taken` set
pickRandomIndices_ignoreExclude(a, count, maxExclusive, exclude) ==
    pickLoop(a, <<>>, {}, count, maxExclusive)

\* a is the state of the rng passed in; the result carries its state after
\* the draws
pickRandomIndices(a, count, maxExclusive, exclude) ==
    pickLoop(a, <<>>, exclude, count, maxExclusive)

\* the two forEach loops: one draw per index, level 2 when it is below
\* num / den, and the code of (name, level) written at the index
RECURSIVE placeEach(_, _, _, _, _, _)
placeEach(a, indices, g, name, num, den) ==
    IF indices = <<>> THEN [a |-> a, grid |-> g]
    ELSE LET written(d, level) ==
                 placeEach(d.a, Tail(indices),
                           [g EXCEPT ![Head(indices)] = getCellValueByName(name, level)],
                           name, num, den)
             drawn(d) == written(d, IF LessThan(d.value, num, den) THEN 2 ELSE 1)
         IN  drawn(mulberry32(a))

Range(q) == {q[k] : k \in DOMAIN q}

\* the initial fill scaled by the whole capacity
initialBits_byCapacity(v, totalCapacity) ==
    IF totalCapacity > 0 THEN FloorTimes(v, totalCapacity) ELSE 0

\* totalCapacity > 0 ? Math.floor(rng() * Math.min(totalCapacity, 2000)) : 0,
\* v being the draw
initialBits(v, totalCapacity) ==
    IF totalCapacity > 0 THEN FloorTimes(v, Min(totalCapacity, 2000)) ELSE 0

\* The body of generateRandomBase is a sequence of statements on the rng, the
\* grid and the exclude set.  Each block of it is an operator from the state
\* st = [a, grid, exclude, placed] before the block to the state after it:
\* a is the state of the rng, placed the indexes a building was written to so
\* far, in the order of the writes.

\* the grid hall, d being the first draw
placeHall(d) ==
    LET hallIndex == FloorTimes(d.value, 64)
    IN  [a |-> d.a,
         grid |-> [[i \in 0..(GridSize - 1) |-> 0]
                      EXCEPT ![hallIndex] = getCellValueByName("grid-hall", 1)],
         exclude |-> {hallIndex},
         placed |-> <<hallIndex>>]

\* the numbers of storages and of mines, drawn before either is placed
drawCounts(st) ==
    LET counted(d2, d3) ==
            [a |-> d3.a, grid |-> st.grid, exclude |-> st.exclude, placed |-> st.placed,
             storages |-> 1 + FloorTimes(d2.value, 2),
             mines |-> 1 + FloorTimes(d3.value, 2)]
        drawn(d2) == counted(d2, mulberry32(d2.a))
    IN  drawn(mulberry32(st.a))

\* pickRandomIndices and the forEach on its result, for the storages and for
\* the mines
placeMany(st, count, name, num, den) ==
    LET written(indices, w) ==
            [st EXCEPT !.a = w.a, !.grid = w.grid,
                       !.exclude = @ \cup Range(indices.result),
                       !.placed = @ \o indices.result]
        picked(indices) ==
            written(indices,
                    placeEach(indices.a, indices.result, st.grid, name, num, den))
    IN  picked(pickRandomIndices(st.a, count, GridSize, st.exclude))

\* the rare lab or portal: a draw, then on < 0.1 one more picked cell
placeRare(st, name) ==
    LET picked(p) ==
            IF p.result # <<>>
            THEN [st EXCEPT !.a = p.a,
                            !.grid = [@ EXCEPT ![p.result[1]] = getCellValueByName(name, 1)],
                            !.exclude = @ \cup {p.result[1]},
                            !.placed = Append(@, p.result[1])]
            ELSE [st EXCEPT !.a = p.a]
        drawn(d) ==
            IF LessThan(d.value, 1, 10)
            THEN picked(pickRandomIndices(d.a, 1, GridSize, st.exclude))
            ELSE [st EXCEPT !.a = d.a]
    IN  drawn(mulberry32(st.a))

\* the capacity of the storages placed and the initial fill
fillBits(st) ==
    LET filled(d, totalCapacity) ==
            [grid |-> st.grid, bits |-> initialBits(d.value, totalCapacity),
             placed |-> st.placed]
    IN  filled(mulberry32(st.a), totalStorageCapacity(st.grid))

placeStorages(st) == placeMany(st, st.storages, "bit-storage", 25, 100)
placeMines(st) == placeMany(st, st.mines, "bit-mine", 15, 100)

\* the blocks in the order of the source, the first one innermost; the result
\* carries, besides grid and bits, the indexes written
generateRandomBase(id) ==
    fillBits(
        placeRare(
            placeRare(
                placeMines(
                    placeStorages(
                        drawCounts(
                            placeHall(mulberry32(stringToSeed(id)))))),
                "lab"),
            "portal"))

----------------------------------------------------------------------------
(* Sector page: conversions between numbers and strings of char codes *)

\* String(n) as char codes
RECURSIVE toString(_)
toString(n) ==
    IF n < 10 THEN <<48 + n>>
    ELSE Append(toString(n \div 10), 48 + (n % 10))

NaN == -1   \* parseInt returning NaN

\* parseInt(s) of a string of char codes: the number its leading decimal
\* digits spell, NaN when it does not start with a digit
RECURSIVE parseDigits(_, _)
parseDigits(s, acc) ==
    IF s = <<>> \/ Head(s) \notin 48..57 THEN acc
    ELSE parseDigits(Tail(s), 10 * acc + (Head(s) - 48))

parseInt(s) ==
    IF s = <<>> \/ Head(s) \notin 48..57 THEN NaN ELSE parseDigits(s, 0)

----------------------------------------------------------------------------
(* Sector page: the arena.  A Vec is kept with both coordinates doubled, so *)
(* that the half-cell moves are integer moves: [x |-> 3, y |-> 15] is the   *)
(* point (1.5, 7.5), the centre of cell 57.                                 *)

GRID_SIZE == 8

Vec(x, y) == [x |-> x, y |-> y]
NoPos == [x |-> -1, y |-> -1]      \* null
NoItem == <<>>                     \* localStorage.getItem returning null

Directions == {"up", "down", "left", "right"}

\* `${Math.round(p.x * 2)}:${Math.round(p.y * 2)}`
posToKey(p) == <<p.x, p.y>>

isOutOfBounds(p) ==
    p.x < 0 \/ p.x >= 2 * GRID_SIZE \/ p.y < 0 \/ p.y >= 2 * GRID_SIZE

addDir(p, d) ==
    CASE d = "up"    -> Vec(p.x, p.y - 1)
      [] d = "down"  -> Vec(p.x, p.y + 1)
      [] d = "left"  -> Vec(p.x - 1, p.y)
      [] d = "right" -> Vec(p.x + 1, p.y)

leftOf(d) ==
    IF d = "up" THEN "left" ELSE IF d = "down" THEN "right"
    ELSE IF d = "left" THEN "down" ELSE "up"

rightOf(d) ==
    IF d = "up" THEN "right" ELSE IF d = "down" THEN "left"
    ELSE IF d = "left" THEN "up" ELSE "down"

\* Math.floor(p.y) * GRID_SIZE + Math.floor(p.x) of a point inside the grid
cellIdxOf(p) == (p.y \div 2) * GRID_SIZE + (p.x \div 2)

isBlockedByBuilding(g, p) ==
    IF isOutOfBounds(p) THEN TRUE
    ELSE LET def == DefAt(g[cellIdxOf(p)])
         IN  IF ~HasName(def) THEN FALSE ELSE def.name # "grid-hall"

\* the keys of both trails
occupiedOf(pt, ot) ==
    {posToKey(pt[k]) : k \in DOMAIN pt} \cup {posToKey(ot[k]) : k \in DOMAIN ot}

\* chooseOpponentDir trying the right turn before the left turn
chooseOpponentDir_rightFirst(g, pos, dir, occupied) ==
    LET candidates == <<dir, rightOf(dir), leftOf(dir), leftOf(leftOf(dir))>>
        blocked(cand) ==
            LET np == addDir(pos, cand)
            IN  isOutOfBounds(np) \/ isBlockedByBuilding(g, np)
                    \/ posToKey(np) \in occupied
        free == {k \in DOMAIN candidates : ~blocked(candidates[k])}
    IN  IF free = {} THEN dir
        ELSE candidates[CHOOSE k \in free : \A j \in free : k <= j]

chooseOpponentDir(g, pos, dir, occupied) ==
    LET candidates == <<dir, leftOf(dir), rightOf(dir), leftOf(leftOf(dir))>>
        blocked(cand) ==
            LET np == addDir(pos, cand)
            IN  isOutOfBounds(np) \/ isBlockedByBuilding(g, np)
                    \/ posToKey(np) \in occupied
        free == {k \in DOMAIN candidates : ~blocked(candidates[k])}
    IN  IF free = {} THEN dir
        ELSE candidates[CHOOSE k \in free : \A j \in free : k <= j]

\* nextSectorItem storing cur + 2
nextSectorItem_plusTwo(item) ==
    LET cur == parseInt(IF item = NoItem THEN <<49>> ELSE item)
    IN  IF cur = NaN THEN <<78, 97, 78>> ELSE toString(cur + 2)

\* String(cur + 1)
nextSectorItem(item) ==
    LET cur == parseInt(IF item = NoItem THEN <<49>> ELSE item)
    IN  IF cur = NaN THEN <<78, 97, 78>> ELSE toString(cur + 1)

\* the state of the page as the interval callback sees it
ArenaState ==
    [grid |-> sectorGrid,
     playerPos |-> playerPos, playerDir |-> playerDir, playerTrail |-> playerTrail,
     opponentPos |-> opponentPos, opponentDir |-> opponentDir,
     opponentTrail |-> opponentTrail, opponentDead |-> opponentDead,
     gameOver |-> gameOver, didWin |-> didWin, started |-> started,
     winRecorded |-> winRecorded, sectorItem |-> sectorItem]

\* stepPlayer treating the hub as any other building while the opponent is
\* alive
stepPlayer_hubBlocks(s) ==
    LET pp == s.playerPos
        occupied == occupiedOf(s.playerTrail, s.opponentTrail)
        nextP == addDir(pp, s.playerDir)
        cellDef == DefAt(s.grid[cellIdxOf(nextP)])
        lost == [s EXCEPT !.gameOver = TRUE, !.didWin = FALSE]
        moved == [s EXCEPT !.playerPos = nextP,
                           !.playerTrail = Append(s.playerTrail, nextP)]
    IN  IF pp = NoPos \/ s.gameOver THEN s
        ELSE IF isOutOfBounds(nextP) THEN lost
        ELSE IF cellDef.name = "grid-hall" /\ (s.opponentDead \/ s.opponentPos = NoPos)
        THEN [moved EXCEPT
                 !.gameOver = TRUE,
                 !.didWin = TRUE,
                 !.sectorItem = IF ~s.winRecorded
                                THEN nextSectorItem(s.sectorItem)
                                ELSE s.sectorItem,
                 !.winRecorded = TRUE]
        ELSE IF HasName(cellDef) THEN lost
        ELSE IF \/ posToKey(nextP) \in occupied
                \/ s.opponentPos # NoPos /\ posToKey(nextP) = posToKey(s.opponentPos)
        THEN lost
        ELSE moved

\* stepPlayer moving the player into a cell that holds a non-hub building
stepPlayer_entersBuilding(s) ==
    LET pp == s.playerPos
        occupied == occupiedOf(s.playerTrail, s.opponentTrail)
        nextP == addDir(pp, s.playerDir)
        cellDef == DefAt(s.grid[cellIdxOf(nextP)])
        lost == [s EXCEPT !.gameOver = TRUE, !.didWin = FALSE]
        moved == [s EXCEPT !.playerPos = nextP,
                           !.playerTrail = Append(s.playerTrail, nextP)]
    IN  IF pp = NoPos \/ s.gameOver THEN s
        ELSE IF isOutOfBounds(nextP) THEN lost
        ELSE IF cellDef.name = "grid-hall"
        THEN IF s.opponentDead \/ s.opponentPos = NoPos
             THEN [moved EXCEPT
                      !.gameOver = TRUE,
                      !.didWin = TRUE,
                      !.sectorItem = IF ~s.winRecorded
                                     THEN nextSectorItem(s.sectorItem)
                                     ELSE s.sectorItem,
                      !.winRecorded = TRUE]
             ELSE moved
        ELSE IF HasName(cellDef) /\ cellDef.name # "grid-hall"
        THEN [moved EXCEPT !.gameOver = TRUE, !.didWin = FALSE]
        ELSE IF \/ posToKey(nextP) \in occupied
                \/ s.opponentPos # NoPos /\ posToKey(nextP) = posToKey(s.opponentPos)
        THEN lost
        ELSE moved

\* stepPlayer keeping only the last two points of the player's trail
stepPlayer_prunesTrail(s) ==
    LET pp == s.playerPos
        occupied == occupiedOf(s.playerTrail, s.opponentTrail)
        nextP == addDir(pp, s.playerDir)
        cellDef == DefAt(s.grid[cellIdxOf(nextP)])
        lost == [s EXCEPT !.gameOver = TRUE, !.didWin = FALSE]
        moved == [s EXCEPT !.playerPos = nextP,
                           !.playerTrail = <<s.playerPos, nextP>>]
    IN  IF pp = NoPos \/ s.gameOver THEN s
        ELSE IF isOutOfBounds(nextP) THEN lost
        ELSE IF cellDef.name = "grid-hall"
        THEN IF s.opponentDead \/ s.opponentPos = NoPos
             THEN [moved EXCEPT
                      !.gameOver = TRUE,
                      !.didWin = TRUE,
                      !.sectorItem = IF ~s.winRecorded
                                     THEN nextSectorItem(s.sectorItem)
                                     ELSE s.sectorItem,
                      !.winRecorded = TRUE]
             ELSE moved
        ELSE IF HasName(cellDef) /\ cellDef.name # "grid-hall" THEN lost
        ELSE IF \/ posToKey(nextP) \in occupied
                \/ s.opponentPos # NoPos /\ posToKey(nextP) = posToKey(s.opponentPos)
        THEN lost
        ELSE moved

\* the updater passed to setPlayerPos, with the state updates it issues
stepPlayer(s) ==
    LET pp == s.playerPos
        occupied == occupiedOf(s.playerTrail, s.opponentTrail)
        nextP == addDir(pp, s.playerDir)
        cellDef == DefAt(s.grid[cellIdxOf(nextP)])
        lost == [s EXCEPT !.gameOver = TRUE, !.didWin = FALSE]
        moved == [s EXCEPT !.playerPos = nextP,
                           !.playerTrail = Append(s.playerTrail, nextP)]
    IN  IF pp = NoPos \/ s.gameOver THEN s
        ELSE IF isOutOfBounds(nextP) THEN lost
        ELSE IF cellDef.name = "grid-hall"
        THEN IF s.opponentDead \/ s.opponentPos = NoPos
             THEN [moved EXCEPT
                      !.gameOver = TRUE,
                      !.didWin = TRUE,
                      !.sectorItem = IF ~s.winRecorded
                                     THEN nextSectorItem(s.sectorItem)
                                     ELSE s.sectorItem,
                      !.winRecorded = TRUE]
             ELSE moved
        ELSE IF HasName(cellDef) /\ cellDef.name # "grid-hall" THEN lost
        ELSE IF \/ posToKey(nextP) \in occupied
                \/ s.opponentPos # NoPos /\ posToKey(nextP) = posToKey(s.opponentPos)
        THEN lost
        ELSE moved

\* stepOpponent leaving the trail of the eliminated opponent on the arena
stepOpponent_keepsTrail(s) ==
    LET op == s.opponentPos
        occupied == occupiedOf(s.playerTrail, s.opponentTrail)
        nd == chooseOpponentDir(s.grid, op, s.opponentDir, occupied)
        nextO == addDir(op, nd)
        cellDefO == DefAt(s.grid[cellIdxOf(nextO)])
        turned == [s EXCEPT !.opponentDir = nd]
        dead == [turned EXCEPT !.opponentDead = TRUE, !.opponentPos = NoPos]
    IN  IF op = NoPos \/ s.gameOver \/ s.opponentDead THEN s
        ELSE IF isOutOfBounds(nextO) THEN dead
        ELSE IF HasName(cellDefO) /\ cellDefO.name # "grid-hall" THEN dead
        ELSE IF \/ posToKey(nextO) \in occupied
                \/ s.playerPos # NoPos /\ posToKey(nextO) = posToKey(s.playerPos)
        THEN dead
        ELSE [turned EXCEPT !.opponentPos = nextO,
                            !.opponentTrail = Append(s.opponentTrail, nextO)]

\* stepOpponent leaving a blocked opponent alive where it stands
stepOpponent_standsStill(s) ==
    LET op == s.opponentPos
        occupied == occupiedOf(s.playerTrail, s.opponentTrail)
        nd == chooseOpponentDir(s.grid, op, s.opponentDir, occupied)
        nextO == addDir(op, nd)
        cellDefO == DefAt(s.grid[cellIdxOf(nextO)])
        turned == [s EXCEPT !.opponentDir = nd]
        dead == turned
    IN  IF op = NoPos \/ s.gameOver \/ s.opponentDead THEN s
        ELSE IF isOutOfBounds(nextO) THEN dead
        ELSE IF HasName(cellDefO) /\ cellDefO.name # "grid-hall" THEN dead
        ELSE IF \/ posToKey(nextO) \in occupied
                \/ s.playerPos # NoPos /\ posToKey(nextO) = posToKey(s.playerPos)
        THEN dead
        ELSE [turned EXCEPT !.opponentPos = nextO,
                            !.opponentTrail = Append(s.opponentTrail, nextO)]

\* stepOpponent eliminating the opponent that steps into the hub cell
stepOpponent_dreadsHub(s) ==
    LET op == s.opponentPos
        occupied == occupiedOf(s.playerTrail, s.opponentTrail)
        nd == chooseOpponentDir(s.grid, op, s.opponentDir, occupied)
        nextO == addDir(op, nd)
        cellDefO == DefAt(s.grid[cellIdxOf(nextO)])
        turned == [s EXCEPT !.opponentDir = nd]
        dead == [turned EXCEPT !.opponentDead = TRUE, !.opponentTrail = <<>>,
                               !.opponentPos = NoPos]
    IN  IF op = NoPos \/ s.gameOver \/ s.opponentDead THEN s
        ELSE IF isOutOfBounds(nextO) THEN dead
        ELSE IF HasName(cellDefO) /\ cellDefO.name # "grid-hall" THEN dead
        ELSE IF \/ posToKey(nextO) \in occupied
                \/ s.playerPos # NoPos /\ posToKey(nextO) = posToKey(s.playerPos)
        THEN dead
        ELSE IF cellDefO.name = "grid-hall" THEN dead
        ELSE [turned EXCEPT !.opponentPos = nextO,
                            !.opponentTrail = Append(s.opponentTrail, nextO)]

\* the updater passed to setOpponentPos, with the state updates it issues
stepOpponent(s) ==
    LET op == s.opponentPos
        occupied == occupiedOf(s.playerTrail, s.opponentTrail)
        nd == chooseOpponentDir(s.grid, op, s.opponentDir, occupied)
        nextO == addDir(op, nd)
        cellDefO == DefAt(s.grid[cellIdxOf(nextO)])
        turned == [s EXCEPT !.opponentDir = nd]
        dead == [turned EXCEPT !.opponentDead = TRUE, !.opponentTrail = <<>>,
                               !.opponentPos = NoPos]
    IN  IF op = NoPos \/ s.gameOver \/ s.opponentDead THEN s
        ELSE IF isOutOfBounds(nextO) THEN dead
        ELSE IF HasName(cellDefO) /\ cellDefO.name # "grid-hall" THEN dead
        ELSE IF \/ posToKey(nextO) \in occupied
                \/ s.playerPos # NoPos /\ posToKey(nextO) = posToKey(s.playerPos)
        THEN dead
        ELSE [turned EXCEPT !.opponentPos = nextO,
                            !.opponentTrail = Append(s.opponentTrail, nextO)]

\* one interval callback: both updaters read the values of the render the
\* interval was set up in
intervalCallback(s) ==
    LET p == stepPlayer(s)
        o == stepOpponent(s)
    IN  [p EXCEPT !.opponentPos = o.opponentPos, !.opponentDir = o.opponentDir,
                  !.opponentTrail = o.opponentTrail, !.opponentDead = o.opponentDead]

\* the movement effect has an interval running
intervalRuns(s) == s.playerPos # NoPos /\ ~s.gameOver /\ s.started

\* onKey without the `if (gameOver) return`
onKey_afterGameOver(over, d, key) ==
    CASE key = "w" -> (IF d = "down" THEN d ELSE "up")
      [] key = "s" -> (IF d = "up" THEN d ELSE "down")
      [] key = "a" -> (IF d = "right" THEN d ELSE "left")
      [] key = "d" -> (IF d = "left" THEN d ELSE "right")
      [] OTHER -> d

\* onKey setting the facing whatever the current one
onKey_allowReverse(over, d, key) ==
    IF over THEN d
    ELSE CASE key = "w" -> "up" [] key = "s" -> "down"
           [] key = "a" -> "left" [] key = "d" -> "right" [] OTHER -> d

\* the keydown listener; d is the current facing
onKey(over, d, key) ==
    IF over THEN d
    ELSE CASE key = "w" -> (IF d = "down" THEN d ELSE "up")
           [] key = "s" -> (IF d = "up" THEN d ELSE "down")
           [] key = "a" -> (IF d = "right" THEN d ELSE "left")
           [] key = "d" -> (IF d = "left" THEN d ELSE "right")
           [] OTHER -> d

\* the pools resetGame picks the two start cells from
emptyCells(g) == {i \in DOMAIN g : ~HasName(DefAt(g[i]))}
leftEmpty(g) == {i \in emptyCells(g) : i % GRID_SIZE < GRID_SIZE \div 2}
rightEmpty(g) == emptyCells(g) \ leftEmpty(g)
pPool(g) == IF leftEmpty(g) # {} THEN leftEmpty(g) ELSE emptyCells(g)
\* oPool without the bias to the right half
oPool_anyEmpty(g) == emptyCells(g)
oPool(g) == IF rightEmpty(g) # {} THEN rightEmpty(g) ELSE emptyCells(g)

\* the centre of cell i
centreOf(i) == Vec(2 * (i % GRID_SIZE) + 1, 2 * (i \div GRID_SIZE) + 1)

\* resetGame starting both trails empty
resetGame_emptyTrails(s, pIndex, oIndex) ==
    [s EXCEPT !.playerPos = centreOf(pIndex), !.playerDir = "right",
              !.playerTrail = <<>>,
              !.opponentPos = centreOf(oIndex), !.opponentDir = "left",
              !.opponentTrail = <<>>,
              !.opponentDead = FALSE, !.gameOver = FALSE, !.didWin = FALSE,
              !.started = FALSE, !.winRecorded = FALSE]

\* resetGame leaving `started` as it is
resetGame_keepStarted(s, pIndex, oIndex) ==
    [s EXCEPT !.playerPos = centreOf(pIndex), !.playerDir = "right",
              !.playerTrail = <<centreOf(pIndex)>>,
              !.opponentPos = centreOf(oIndex), !.opponentDir = "left",
              !.opponentTrail = <<centreOf(oIndex)>>,
              !.opponentDead = FALSE, !.gameOver = FALSE, !.didWin = FALSE,
              !.winRecorded = FALSE]

\* the state resetGame sets, pIndex and oIndex being its two random picks.
\* oIndex is the pick the retry loop ends with: a cell of oPool, which is
\* pIndex itself when up to 51 picks in a row give pIndex
resetGame(s, pIndex, oIndex) ==
    [s EXCEPT !.playerPos = centreOf(pIndex), !.playerDir = "right",
              !.playerTrail = <<centreOf(pIndex)>>,
              !.opponentPos = centreOf(oIndex), !.opponentDir = "left",
              !.opponentTrail = <<centreOf(oIndex)>>,
              !.opponentDead = FALSE, !.gameOver = FALSE, !.didWin = FALSE,
              !.started = FALSE, !.winRecorded = FALSE]

\* the values of useState and useRef before the first effect
ArenaUnmounted ==
    /\ playerPos = NoPos
    /\ playerDir = "right"
    /\ playerTrail = <<>>
    /\ opponentPos = NoPos
    /\ opponentDir = "left"
    /\ opponentTrail = <<>>
    /\ opponentDead = FALSE
    /\ gameOver = FALSE
    /\ didWin = FALSE
    /\ started = FALSE
    /\ winRecorded = FALSE
    /\ sectorItem = NoItem
    /\ steps = 0

----------------------------------------------------------------------------
(* Production loop: the setInterval callback *)

\* the `for (const m of mines)` loop; acc = [next, remainingCapacity]
RECURSIVE produceFrom(_, _, _)
produceFrom(g, mines, acc) ==
    IF mines = <<>> \/ acc.remainingCapacity <= 0 THEN acc
    ELSE LET m == [index |-> Head(mines), level |-> LevelOf(DefAt(g[Head(mines)]))]
             produce == ProducePerLevel * m.level
             delta == Min(produce, acc.remainingCapacity)
         IN  produceFrom(g, Tail(mines),
                 [next |-> Put(acc.next, m.index, Get(acc.next, m.index) + delta),
                  remainingCapacity |-> acc.remainingCapacity - delta])

\* cells ordered by ascending level, then by grid index
RECURSIVE ByLevel(_, _)
ByLevel(g, S) ==
    IF S = {} THEN <<>>
    ELSE LET m == CHOOSE x \in S : \A y \in S :
                      \/ LevelOf(DefAt(g[x])) < LevelOf(DefAt(g[y]))
                      \/ LevelOf(DefAt(g[x])) = LevelOf(DefAt(g[y])) /\ x <= y
         IN  <<m>> \o ByLevel(g, S \ {m})

\* productionTick visiting the mines sorted by level instead of grid order
productionTick_byLevel(g, b, mu) ==
    LET capacity == totalStorageCapacity(g)
        currentTotal == b + totalUncollected(mu)
        mines == ByLevel(g, {i \in DOMAIN g : NameAt(g, i) = "bit-mine"})
        remainingCapacity == capacity - currentTotal
    IN  IF capacity <= 0 \/ currentTotal >= capacity \/ mines = <<>> THEN mu
        ELSE produceFrom(g, mines,
                 [next |-> mu, remainingCapacity |-> remainingCapacity]).next

\* productionTick crediting the full rate of every mine, whatever the capacity
productionTick_uncapped(g, b, mu) ==
    LET mines == {i \in DOMAIN g : NameAt(g, i) = "bit-mine"}
    IN  [i \in DOMAIN mu \cup mines |->
            IF i \in mines
            THEN Get(mu, i) + ProducePerLevel * LevelOf(DefAt(g[i]))
            ELSE mu[i]]

\* productionTick crediting every mine at the rate of a level-1 mine
productionTick_flatRate(g, b, mu) ==
    LET capacity == totalStorageCapacity(g)
        currentTotal == b + totalUncollected(mu)
        mines == Ascending({i \in DOMAIN g : NameAt(g, i) = "bit-mine"})
        remainingCapacity == capacity - currentTotal
        level1 == [i \in DOMAIN g |-> IF NameAt(g, i) = "bit-mine" THEN 3 ELSE g[i]]
    IN  IF capacity <= 0 \/ currentTotal >= capacity \/ mines = <<>> THEN mu
        ELSE produceFrom(level1, mines,
                 [next |-> mu, remainingCapacity |-> remainingCapacity]).next

\* the yield map after one tick
productionTick(g, b, mu) ==
    LET capacity == totalStorageCapacity(g)
        currentTotal == b + totalUncollected(mu)
        mines == Ascending({i \in DOMAIN g : NameAt(g, i) = "bit-mine"})
        remainingCapacity == capacity - currentTotal
    IN  IF capacity <= 0 THEN mu
        ELSE IF currentTotal >= capacity THEN mu
        ELSE IF mines = <<>> THEN mu
        ELSE IF remainingCapacity <= 0 THEN mu
        ELSE LET done == produceFrom(g, mines,
                             [next |-> mu, remainingCapacity |-> remainingCapacity])
             IN  IF done.remainingCapacity # remainingCapacity THEN done.next ELSE mu

----------------------------------------------------------------------------
(* Storage images: the fill level shown for each storage cell *)

\* Math.ceil(ratio * 4) with ratio = assigned / capacity
ceilRatio4(assigned, capacity) == (4 * assigned + capacity - 1) \div capacity

\* the `for (const s of storages)` loop; acc = [result, remaining].  A pool
\* of NaN makes assigned, imageIndex and remaining NaN
RECURSIVE fillFrom(_, _, _)
fillFrom(g, storages, acc) ==
    IF storages = <<>> THEN acc
    ELSE LET s == [index |-> Head(storages), level |-> LevelOf(DefAt(g[Head(storages)]))]
             capacity == s.level * bitStorageCapacityPerLevel
             assigned == IF acc.remaining = NaN THEN NaN
                         ELSE Max(0, Min(acc.remaining, capacity))
             imageIndex == IF assigned = NaN THEN NaN
                           ELSE IF capacity > 0
                                THEN Min(4, ceilRatio4(assigned, capacity))
                                ELSE 0
         IN  fillFrom(g, Tail(storages),
                 [result |-> Put(acc.result, s.index, imageIndex),
                  remaining |-> IF assigned = NaN THEN NaN
                                ELSE acc.remaining - assigned])

\* the Map index -> imageIndex; storages sorted by level, then by index
storageImageByIndex(g, b) ==
    fillFrom(g, ByLevel(g, {i \in DOMAIN g : IncludesStorage(DefAt(g[i]))}),
             [result |-> EmptyMap, remaining |-> b]).result

----------------------------------------------------------------------------
(* Collect button of the selected mine *)

\* collectOnClick leaving a drained entry in the map at 0
collectOnClick_keepZero(g, b, mu, ae) ==
    LET amount == Get(mu, ae.index)
        capacityLeft == Max(0, totalStorageCapacity(g) - b)
        toCollect == Min(amount, capacityLeft)
    IN  IF amount <= 0 \/ toCollect <= 0 THEN [bits |-> b, mineUncollected |-> mu]
        ELSE [bits |-> b + toCollect,
              mineUncollected |-> Put(mu, ae.index, amount - toCollect)]

collectOnClick(g, b, mu, ae) ==
    LET amount == Get(mu, ae.index)
        capacityLeft == Max(0, totalStorageCapacity(g) - b)
        toCollect == Min(amount, capacityLeft)
        rest == Max(0, Get(mu, ae.index) - toCollect)
    IN  IF amount <= 0 THEN [bits |-> b, mineUncollected |-> mu]
        ELSE IF toCollect <= 0 THEN [bits |-> b, mineUncollected |-> mu]
        ELSE [bits |-> b + toCollect,
              mineUncollected |->
                  IF rest <= 0 THEN Delete(mu, ae.index) ELSE Put(mu, ae.index, rest)]

----------------------------------------------------------------------------
(* Upgrade button of the selected building *)

\* upgradeOnClick with the button enabled whatever the pool
upgradeOnClick_notDisabled(g, b, ae) ==
    LET nextLevel == ae.level + 1
        nextValue == getCellValueByName(ae.name, nextLevel)
        cost == getUpgradeCost(ae.name, nextLevel)
        levels == maxLevelByBuilding(g)
        maxLevel == IF ae.name \in DOMAIN levels THEN levels[ae.name] ELSE ae.level
    IN  IF ae.level >= maxLevel \/ nextValue = -1 \/ cost = NoCost \/ nextLevel > maxLevel
        THEN [grid |-> g, bits |-> b, activeElement |-> ae]
        ELSE [grid |-> [g EXCEPT ![ae.index] = nextValue],
              bits |-> b - cost,
              activeElement |-> [ae EXCEPT !.level = nextLevel]]

upgradeOnClick(g, b, ae) ==
    LET nextLevel == ae.level + 1
        nextValue == getCellValueByName(ae.name, nextLevel)
        cost == getUpgradeCost(ae.name, nextLevel)
        levels == maxLevelByBuilding(g)
        maxLevel == IF ae.name \in DOMAIN levels THEN levels[ae.name] ELSE ae.level
        canUpgrade == nextValue # -1 /\ cost # NoCost /\ nextLevel <= maxLevel
        affordable == cost # NoCost /\ cost # 0 /\ b >= cost
        same == [grid |-> g, bits |-> b, activeElement |-> ae]
    IN  IF ae.level >= maxLevel THEN same          \* "Max Level Reached"
        ELSE IF ~canUpgrade THEN same              \* "Upgrade Unavailable"
        ELSE IF ~affordable THEN same              \* button disabled
        ELSE [grid |-> [g EXCEPT ![ae.index] = nextValue],
              bits |-> b - cost,
              activeElement |-> [ae EXCEPT !.level = nextLevel]]

----------------------------------------------------------------------------
(* Click on a grid cell *)

cellOnClick(g, i) ==
    [name |-> DefAt(g[i]).name, level |-> LevelOf(DefAt(g[i])), index |-> i]

----------------------------------------------------------------------------
(* Drop on grid cell i; data is the drag payload *)

\* onDropShop without the `bits < price` refusal
onDropShop_noFundsCheck(g, b, mu, item, i) ==
    LET remaining == Get(remainingPurchasesByItem(g), item)
        price == getPriceForItem(item)
        value == getCellValueByName(item, 1)
    IN  IF remaining <= 0 \/ value <= 0
        THEN [grid |-> g, bits |-> b, mineUncollected |-> mu]
        ELSE [grid |-> [g EXCEPT ![i] = value],
              bits |-> b - price,
              mineUncollected |-> IF item = "bit-mine" THEN Put(mu, i, 0) ELSE mu]

onDropShop(g, b, mu, item, i) ==
    LET remaining == Get(remainingPurchasesByItem(g), item)
        price == getPriceForItem(item)
        value == getCellValueByName(item, 1)
        same == [grid |-> g, bits |-> b, mineUncollected |-> mu]
    IN  IF remaining <= 0 THEN same
        ELSE IF b < price THEN same
        ELSE IF value <= 0 THEN same
        ELSE [grid |-> [g EXCEPT ![i] = value],
              bits |-> b - price,
              mineUncollected |-> IF item = "bit-mine" THEN Put(mu, i, 0) ELSE mu]

\* onDropGrid copying the yield-map entry without deleting the old key
onDropGrid_keepOldKey(g, b, mu, from, i) ==
    IF from = i THEN [grid |-> g, bits |-> b, mineUncollected |-> mu]
    ELSE [grid |-> [g EXCEPT ![i] = g[from], ![from] = 0],
          bits |-> b,
          mineUncollected |->
              IF DefAt(g[from]).name = "bit-mine"
              THEN Put(mu, i, Get(mu, from))
              ELSE mu]

onDropGrid(g, b, mu, from, i) ==
    IF from = i THEN [grid |-> g, bits |-> b, mineUncollected |-> mu]
    ELSE LET movingDef == DefAt(g[from])
         IN  [grid |-> [g EXCEPT ![i] = g[from], ![from] = 0],
              bits |-> b,
              mineUncollected |->
                  IF movingDef.name = "bit-mine"
                  THEN Delete(Put(mu, i, Get(mu, from)), from)
                  ELSE mu]

\* onDrop without the "only drop into empty cells" refusal
onDrop_anyTarget(g, b, mu, data, i) ==
    IF data.type = "shop" THEN onDropShop(g, b, mu, data.item, i)
    ELSE onDropGrid(g, b, mu, data.fromIndex, i)

onDrop(g, b, mu, data, i) ==
    LET targetEmpty == ~HasName(DefAt(g[i]))
    IN  IF ~targetEmpty THEN [grid |-> g, bits |-> b, mineUncollected |-> mu]
        ELSE IF data.type = "shop" THEN onDropShop(g, b, mu, data.item, i)
        ELSE onDropGrid(g, b, mu, data.fromIndex, i)

----------------------------------------------------------------------------
(* State after construction: the mount effect *)

\* a 64-cell grid holding the codes of f and 0 elsewhere
GridWith(f) == [i \in 0..(GridSize - 1) |-> IF i \in DOMAIN f THEN f[i] ELSE 0]

\* nothing saved: hall at 27, storage at 36, 2000 bits, empty yield map
DefaultState ==
    [grid |-> [i \in 0..(GridSize - 1) |-> IF i = 27 THEN 1 ELSE IF i = 36 THEN 2 ELSE 0],
     bits |-> 2000,
     mineUncollected |-> EmptyMap]

\* States an earlier run saved ("grid", "bits", "mineUncollected" of
\* localStorage); each is reached from DefaultState by the actions below:
\*  1. move 36 -> 50, place mine at 36, tick, place mine at 52, 89 ticks
\*  2. move 36 -> 50, place storage at 51, place mine at 36, 389 ticks
\*  3. state 2, tick, select 36, collect, select 27, upgrade (hall 2,
\*     0 bits), 400 ticks, select 36, collect (4000 bits), upgrade (mine
\*     level 2, 2200 bits), tick, place mine at 52, 89 ticks
SavedStates ==
    { [grid |-> GridWith(27 :> 1 @@ 50 :> 2 @@ 36 :> 3 @@ 52 :> 3),
       bits |-> 200,
       mineUncollected |-> (36 :> 900 @@ 52 :> 890)],
      [grid |-> GridWith(27 :> 1 @@ 50 :> 2 @@ 51 :> 2 @@ 36 :> 3),
       bits |-> 100,
       mineUncollected |-> (36 :> 3890)],
      [grid |-> GridWith(27 :> 4 @@ 50 :> 2 @@ 51 :> 2 @@ 36 :> 6 @@ 52 :> 3),
       bits |-> 1300,
       mineUncollected |-> (36 :> 1800 @@ 52 :> 890)] }

NoActive == [name |-> "", level |-> 0, index |-> -1]   \* activeElement = null

----------------------------------------------------------------------------
(* Base page: the persisted state and the load effect.  A text is the     *)
(* sequence of its char codes.                                            *)

\* the texts lo..hi of a sequence joined by commas
RECURSIVE joinBetween(_, _, _)
joinBetween(texts, lo, hi) ==
    IF lo > hi THEN <<>>
    ELSE IF lo = hi THEN texts[lo]
    ELSE joinBetween(texts, lo, (lo + hi) \div 2) \o <<44>>
             \o joinBetween(texts, (lo + hi) \div 2 + 1, hi)

join(texts) == joinBetween(texts, 1, Len(texts))

\* JSON.stringify of a number[]: [1,0,2]
stringifyArray(g) ==
    <<91>> \o join([k \in 1..Cardinality(DOMAIN g) |-> toString(g[k - 1])])
           \o <<93>>

\* the entries of a Record<number, number>, keys as JavaScript orders them
entryTexts(m, keys) ==
    [k \in 1..Len(keys) |-> <<34>> \o toString(keys[k]) \o <<34, 58>>
                               \o toString(m[keys[k]])]

\* JSON.stringify of a Record<number, number>: {"36":900,"52":890}
stringifyRecord(m) ==
    <<123>> \o join(entryTexts(m, Ascending(DOMAIN m))) \o <<125>>

\* the texts between the separators of s[lo..hi]: the parts before and after
\* the separator nearest to the middle
RECURSIVE splitBetween(_, _, _, _)
splitAround(s, sep, lo, hi, seps) ==
    IF seps = {} THEN <<SubSeq(s, lo, hi)>>
    ELSE LET p == CHOOSE x \in seps :
                      \A y \in seps :
                          (2 * x - lo - hi) * (2 * x - lo - hi)
                              <= (2 * y - lo - hi) * (2 * y - lo - hi)
         IN  splitBetween(s, sep, lo, p - 1) \o splitBetween(s, sep, p + 1, hi)
splitBetween(s, sep, lo, hi) ==
    splitAround(s, sep, lo, hi, {k \in lo..hi : s[k] = sep})

split(s, sep) == splitBetween(s, sep, 1, Len(s))

\* a JSON number without sign, fraction and exponent
isNumberText(t) ==
    /\ t # <<>>
    /\ \A k \in DOMAIN t : t[k] \in 48..57
    /\ Len(t) > 1 => t[1] # 48

\* a JSON string of digits
isKeyText(t) ==
    /\ Len(t) >= 3
    /\ t[1] = 34 /\ t[Len(t)] = 34
    /\ \A k \in 2..(Len(t) - 1) : t[k] \in 48..57

isEntry(parts) == Len(parts) = 2 /\ isKeyText(parts[1]) /\ isNumberText(parts[2])

SyntaxError == [throws |-> TRUE, type |-> "undefined", value |-> <<>>]
Parsed(type, value) == [throws |-> FALSE, type |-> type, value |-> value]

elementsOf(parts) ==
    IF \A k \in DOMAIN parts : isNumberText(parts[k])
    THEN Parsed("array", [i \in 0..(Len(parts) - 1) |-> parseDigits(parts[i + 1], 0)])
    ELSE SyntaxError

entriesOf(pairs) ==
    IF \A k \in DOMAIN pairs : isEntry(pairs[k])
    THEN Parsed("object",
                [i \in {parseDigits(SubSeq(pairs[k][1], 2, Len(pairs[k][1]) - 1), 0) :
                            k \in DOMAIN pairs} |->
                    LET last == CHOOSE k \in DOMAIN pairs :
                                    /\ parseDigits(SubSeq(pairs[k][1], 2,
                                                          Len(pairs[k][1]) - 1), 0) = i
                                    /\ \A j \in DOMAIN pairs :
                                          parseDigits(SubSeq(pairs[j][1], 2,
                                                             Len(pairs[j][1]) - 1), 0) = i
                                              => j <= k
                    IN  parseDigits(pairs[last][2], 0)])
    ELSE SyntaxError

pairsOf(parts) == [k \in DOMAIN parts |-> split(parts[k], 58)]

\* JSON.parse on the texts the model stores: null, a number, an array of
\* numbers, an object of numbers; every other text of the model is not JSON
JSONparse(s) ==
    IF s = <<110, 117, 108, 108>> THEN Parsed("null", <<>>)
    ELSE IF isNumberText(s) THEN Parsed("number", parseDigits(s, 0))
    ELSE IF Len(s) >= 2 /\ s[1] = 91 /\ s[Len(s)] = 93
    THEN IF Len(s) = 2 THEN Parsed("array", <<>>)
         ELSE elementsOf(split(SubSeq(s, 2, Len(s) - 1), 44))
    ELSE IF Len(s) >= 2 /\ s[1] = 123 /\ s[Len(s)] = 125
    THEN IF Len(s) = 2 THEN Parsed("object", EmptyMap)
         ELSE entriesOf(pairsOf(split(SubSeq(s, 2, Len(s) - 1), 44)))
    ELSE SyntaxError

\* The load effect, block by block, on the record st of the page state, the
\* storage and whether a statement threw: once one has, the rest of the
\* effect is not run.

\* the item "sector"
loadSector(st) ==
    [st EXCEPT !.sectorItem = IF @ = NoItem THEN <<49>> ELSE @]

gridParsed(st, r) ==
    IF r.throws THEN [st EXCEPT !.threw = TRUE] ELSE [st EXCEPT !.grid = r.value]

\* the item "grid"
loadGrid(st) ==
    IF st.storage.grid # NoItem
    THEN gridParsed(st, JSONparse(st.storage.grid))
    ELSE [st EXCEPT !.grid = DefaultState.grid,
                    !.storage.grid = stringifyArray(DefaultState.grid)]

\* the item "bits"
loadBits(st) ==
    IF st.threw THEN st
    ELSE IF st.storage.bits # NoItem
    THEN [st EXCEPT !.bits = parseInt(st.storage.bits)]
    ELSE [st EXCEPT !.bits = 2000, !.storage.bits = <<50, 48, 48, 48>>]

minesParsed(st, r) ==
    IF ~r.throws /\ r.type \in {"array", "object"}
    THEN [st EXCEPT !.mineUncollected = r.value]
    ELSE st

\* the item "mineUncollected"
loadMines(st) ==
    IF st.threw \/ st.storage.mineUncollected = NoItem THEN st
    ELSE minesParsed(st, JSONparse(st.storage.mineUncollected))

loadState(st) == loadMines(loadBits(loadGrid(loadSector(st))))

\* the storage is not looked at: the effect is over
LoadDone ==
    /\ storage = [grid |-> NoItem, bits |-> NoItem, mineUncollected |-> NoItem]
    /\ loadEffect = "done"



\* the grids the capacity computation is applied to: every code of the
\* catalog, one code past its end and the not-found value -1
CapCodes == (-1)..Len(cellValueMap)
CapGrids == [0..(CapLen - 1) -> CapCodes]

Init ==
    /\ \E s \in {DefaultState} \cup SavedStates :
          /\ grid = s.grid
          /\ bits = s.bits
          /\ mineUncollected = s.mineUncollected
    /\ activeElement = NoActive
    /\ ticks = 0
    /\ capGrid = [i \in 0..(CapLen - 1) |-> 0]
    /\ capResult = <<>>
    /\ sectorId = <<>>
    /\ sectorGrid = <<>>
    /\ sectorBits = 0
    /\ genRuns = <<>>
    /\ ArenaUnmounted
    /\ LoadDone
    /\ lookups = <<>>
    /\ pick = NoPick

----------------------------------------------------------------------------
(* Actions *)

\* the grid indexes clicks and drops are drawn from: the two cells of the
\* default layout and an empty one
Cells == {10, 27, 36}

Select(i) ==
    /\ activeElement' = cellOnClick(grid, i)
    /\ UNCHANGED <<grid, bits, mineUncollected, ticks, capVars, genVars, arenaVars, loadVars, catVars, pickVars>>

Place(item, i) ==
    LET r == onDrop(grid, bits, mineUncollected,
                    [type |-> "shop", item |-> item, fromIndex |-> -1], i)
    IN  /\ grid' = r.grid
        /\ bits' = r.bits
        /\ mineUncollected' = r.mineUncollected
        /\ UNCHANGED <<activeElement, ticks, capVars, genVars, arenaVars, loadVars, catVars, pickVars>>

Move(from, i) ==
    LET r == onDrop(grid, bits, mineUncollected,
                    [type |-> "grid", item |-> "", fromIndex |-> from], i)
    IN  /\ HasName(DefAt(grid[from]))          \* draggable={!isEmpty}
        /\ grid' = r.grid
        /\ bits' = r.bits
        /\ mineUncollected' = r.mineUncollected
        /\ UNCHANGED <<activeElement, ticks, capVars, genVars, arenaVars, loadVars, catVars, pickVars>>

Upgrade ==
    LET r == upgradeOnClick(grid, bits, activeElement)
    IN  /\ activeElement.name # ""            \* the panel is rendered
        /\ grid' = r.grid
        /\ bits' = r.bits
        /\ activeElement' = r.activeElement
        /\ UNCHANGED <<mineUncollected, ticks, capVars, genVars, arenaVars, loadVars, catVars, pickVars>>

Collect ==
    LET r == collectOnClick(grid, bits, mineUncollected, activeElement)
    IN  /\ activeElement.name = "bit-mine"    \* the button is rendered
        /\ bits' = r.bits
        /\ mineUncollected' = r.mineUncollected
        /\ UNCHANGED <<grid, activeElement, ticks, capVars, genVars, arenaVars, loadVars, catVars, pickVars>>

Tick ==
    /\ ticks < MaxTicks
    /\ mineUncollected' = productionTick(grid, bits, mineUncollected)
    /\ ticks' = ticks + 1
    /\ UNCHANGED <<grid, bits, activeElement, capVars, genVars, arenaVars, loadVars, catVars, pickVars>>

Next ==
    \/ \E i \in Cells : Select(i)
    \/ \E item \in Names, i \in Cells : Place(item, i)
    \/ \E from \in Cells, i \in Cells : Move(from, i)
    \/ Upgrade
    \/ Collect
    \/ Tick

Spec == Init /\ [][Next]_vars

----------------------------------------------------------------------------
(* The storage-capacity computation applied to arbitrary small grids *)

InitCapacity ==
    /\ grid = DefaultState.grid
    /\ bits = DefaultState.bits
    /\ mineUncollected = DefaultState.mineUncollected
    /\ activeElement = NoActive
    /\ ticks = 0
    /\ capGrid \in CapGrids
    /\ capResult = <<>>
    /\ sectorId = <<>>
    /\ sectorGrid = <<>>
    /\ sectorBits = 0
    /\ genRuns = <<>>
    /\ ArenaUnmounted
    /\ LoadDone
    /\ lookups = <<>>
    /\ pick = NoPick

ComputeCapacity ==
    /\ capResult = <<>>
    /\ capResult' = <<totalStorageCapacity(capGrid)>>
    /\ UNCHANGED <<ecoVars, capGrid, genVars, arenaVars, loadVars, catVars, pickVars>>

NextCapacity == ComputeCapacity

SpecCapacity == InitCapacity /\ [][NextCapacity]_vars

----------------------------------------------------------------------------
(* Sector page: mounts and route changes *)

\* the ids of the sector pages the home page links to
SectorIds == {toString(n) : n \in 1..MaxSectorId}

InitGenerate ==
    /\ grid = DefaultState.grid
    /\ bits = DefaultState.bits
    /\ mineUncollected = DefaultState.mineUncollected
    /\ activeElement = NoActive
    /\ ticks = 0
    /\ capGrid = [i \in 0..(CapLen - 1) |-> 0]
    /\ capResult = <<>>
    /\ sectorId = <<>>
    /\ sectorGrid = <<>>
    /\ sectorBits = 0
    /\ genRuns = <<>>
    /\ ArenaUnmounted
    /\ LoadDone
    /\ lookups = <<>>
    /\ pick = NoPick

\* The page is mounted for sector id, or its route changes to it: the effect
\* on [sectorId] runs the generator and stores its result.  The first page
\* is any sector's; from a page the next one is the same sector's (reload),
\* the next sector's (the home page's link after a win) or the previous one's
\* (browser history).  genRuns keeps the id and the result of every run.
Visit(id) ==
    /\ Len(genRuns) < MaxRuns
    /\ genRuns = <<>> \/ parseInt(id) - parseInt(sectorId) \in {-1, 0, 1}
    /\ \E r \in {generateRandomBase(id)} :
        /\ sectorId' = id
        /\ sectorGrid' = r.grid
        /\ sectorBits' = r.bits
        /\ genRuns' = Append(genRuns, [sectorId |-> id, grid |-> r.grid,
                                        bits |-> r.bits, placed |-> r.placed])
        /\ UNCHANGED <<ecoVars, capVars, arenaVars, loadVars, catVars, pickVars>>

NextGenerate == \E id \in SectorIds : Visit(id)

SpecGenerate == InitGenerate /\ [][NextGenerate]_vars

----------------------------------------------------------------------------
(* Sector page: the arena session on the base of sector 3 *)

ArenaSector == <<51>>      \* "3"

\* the cells the random picks of resetGame are drawn from: cell 57 next to
\* the hub (58), the corner cell 7 closed in by the storage at 6 and the mine
\* at 15, and cell 60 on the player's row
StartCells == {7, 57, 60}

Keys == {"w", "a", "s", "d"}

\* assignment of the page state record r to the next state
ArenaBecomes(r) ==
    /\ playerPos' = r.playerPos
    /\ playerDir' = r.playerDir
    /\ playerTrail' = r.playerTrail
    /\ opponentPos' = r.opponentPos
    /\ opponentDir' = r.opponentDir
    /\ opponentTrail' = r.opponentTrail
    /\ opponentDead' = r.opponentDead
    /\ gameOver' = r.gameOver
    /\ didWin' = r.didWin
    /\ started' = r.started
    /\ winRecorded' = r.winRecorded
    /\ sectorItem' = r.sectorItem

\* the page of sector 3 is mounted, its base generated and resetGame run by
\* the effect on grid.length
InitArena ==
    /\ grid = DefaultState.grid
    /\ bits = DefaultState.bits
    /\ mineUncollected = DefaultState.mineUncollected
    /\ activeElement = NoActive
    /\ ticks = 0
    /\ capGrid = [i \in 0..(CapLen - 1) |-> 0]
    /\ capResult = <<>>
    /\ \E r \in {generateRandomBase(ArenaSector)} :
           /\ sectorId = ArenaSector
           /\ sectorGrid = r.grid
           /\ sectorBits = r.bits
           /\ genRuns = <<[sectorId |-> ArenaSector, grid |-> r.grid,
                           bits |-> r.bits, placed |-> r.placed]>>
           /\ \E pIndex \in pPool(r.grid) \cap StartCells,
                 oIndex \in oPool(r.grid) \cap StartCells :
                 LET unmounted ==
                         [grid |-> r.grid,
                          playerPos |-> NoPos, playerDir |-> "right", playerTrail |-> <<>>,
                          opponentPos |-> NoPos, opponentDir |-> "left",
                          opponentTrail |-> <<>>, opponentDead |-> FALSE,
                          gameOver |-> FALSE, didWin |-> FALSE, started |-> FALSE,
                          winRecorded |-> FALSE, sectorItem |-> NoItem]
                     s == resetGame(unmounted, pIndex, oIndex)
                 IN  /\ playerPos = s.playerPos
                     /\ playerDir = s.playerDir
                     /\ playerTrail = s.playerTrail
                     /\ opponentPos = s.opponentPos
                     /\ opponentDir = s.opponentDir
                     /\ opponentTrail = s.opponentTrail
                     /\ opponentDead = s.opponentDead
                     /\ gameOver = s.gameOver
                     /\ didWin = s.didWin
                     /\ started = s.started
                     /\ winRecorded = s.winRecorded
                     /\ sectorItem = s.sectorItem
    /\ steps = 0
    /\ LoadDone
    /\ lookups = <<>>
    /\ pick = NoPick

\* the Start button, rendered while !started && !gameOver
Start ==
    /\ ~started /\ ~gameOver
    /\ parseInt(IF sectorItem = NoItem THEN <<49>> ELSE sectorItem) < MaxSector
    /\ started' = TRUE
    /\ UNCHANGED <<playerPos, playerDir, playerTrail, opponentPos, opponentDir,
                   opponentTrail, opponentDead, gameOver, didWin, winRecorded,
                   sectorItem, steps>>
    /\ UNCHANGED <<ecoVars, capVars, genVars, loadVars, catVars, pickVars>>

\* a keydown event
Key(key) ==
    /\ playerDir' = onKey(gameOver, playerDir, key)
    /\ UNCHANGED <<playerPos, playerTrail, opponentPos, opponentDir,
                   opponentTrail, opponentDead, gameOver, didWin, started,
                   winRecorded, sectorItem, steps>>
    /\ UNCHANGED <<ecoVars, capVars, genVars, loadVars, catVars, pickVars>>

\* the interval of the movement effect fires
Step ==
    /\ intervalRuns(ArenaState)
    /\ steps < MaxSteps
    /\ ArenaBecomes(intervalCallback(ArenaState))
    /\ steps' = steps + 1
    /\ UNCHANGED <<ecoVars, capVars, genVars, loadVars, catVars, pickVars>>

\* resetGame: the "Try Again" button, or the page loaded again (the effect on
\* grid.length), which can happen in any state
Reset ==
    /\ steps' = 0
    /\ \E pIndex \in pPool(sectorGrid) \cap StartCells,
          oIndex \in oPool(sectorGrid) \cap StartCells :
          ArenaBecomes(resetGame(ArenaState, pIndex, oIndex))
    /\ UNCHANGED <<ecoVars, capVars, genVars, loadVars, catVars, pickVars>>

NextArena ==
    \/ Start
    \/ \E key \in Keys : Key(key)
    \/ Step
    \/ Reset

SpecArena == InitArena /\ [][NextArena]_vars

\* the interval of the movement effect is due: a step of the timer is a Step,
\* the only action that adds 1 to `steps`
TimerFires ==
    /\ intervalRuns(ArenaState)
    /\ steps < MaxSteps
    /\ steps' = steps + 1

\* setInterval fires its callback every 200 ms for as long as the movement
\* effect keeps it running
SpecArenaFair == SpecArena /\ WF_steps(TimerFires)

----------------------------------------------------------------------------
(* Sector page: resetGame on the generated bases *)

\* the page of a sector is mounted and its base generated; the effect on
\* grid.length has not run yet
InitReset ==
    /\ grid = DefaultState.grid
    /\ bits = DefaultState.bits
    /\ mineUncollected = DefaultState.mineUncollected
    /\ activeElement = NoActive
    /\ ticks = 0
    /\ capGrid = [i \in 0..(CapLen - 1) |-> 0]
    /\ capResult = <<>>
    /\ \E id \in SectorIds :
           \E r \in {generateRandomBase(id)} :
               /\ sectorId = id
               /\ sectorGrid = r.grid
               /\ sectorBits = r.bits
               /\ genRuns = <<[sectorId |-> id, grid |-> r.grid,
                               bits |-> r.bits, placed |-> r.placed]>>
    /\ ArenaUnmounted
    /\ LoadDone
    /\ lookups = <<>>
    /\ pick = NoPick

\* the effect on grid.length: resetGame once the grid has its 64 cells
InitializeGame ==
    /\ playerPos = NoPos
    /\ Cardinality(DOMAIN sectorGrid) = GRID_SIZE * GRID_SIZE
    /\ \E pIndex \in pPool(sectorGrid), oIndex \in oPool(sectorGrid) :
          ArenaBecomes(resetGame(ArenaState, pIndex, oIndex))
    /\ UNCHANGED <<ecoVars, capVars, genVars, steps, loadVars, catVars, pickVars>>

NextReset == InitializeGame

SpecReset == InitReset /\ [][NextReset]_vars

----------------------------------------------------------------------------
(* Base page: the load effect on saved, absent and malformed items *)

\* the grids and yield maps an earlier run saved
SavedGrids == {DefaultState.grid} \cup {s.grid : s \in SavedStates}
SavedMines == {DefaultState.mineUncollected} \cup {s.mineUncollected : s \in SavedStates}

\* a text cut off before its last character
Truncated(t) == SubSeq(t, 1, Len(t) - 1)

\* the items the page finds: absent, saved by an earlier run, or malformed
GridItems ==
    {NoItem} \cup {stringifyArray(g) : g \in SavedGrids}
        \cup {Truncated(stringifyArray(DefaultState.grid)), <<103, 114, 105, 100>>}
BitsItems ==
    {NoItem} \cup {toString(s.bits) : s \in {DefaultState} \cup SavedStates}
        \cup {<<78, 97, 78>>}
MinesItems ==
    {NoItem} \cup {stringifyRecord(m) : m \in SavedMines}
        \cup {Truncated(stringifyRecord(m)) : m \in SavedMines}

\* the page before its first effect: the values of useState
InitLoad ==
    /\ grid = <<>>
    /\ bits = 2000
    /\ mineUncollected = EmptyMap
    /\ activeElement = NoActive
    /\ ticks = 0
    /\ capGrid = [i \in 0..(CapLen - 1) |-> 0]
    /\ capResult = <<>>
    /\ sectorId = <<>>
    /\ sectorGrid = <<>>
    /\ sectorBits = 0
    /\ genRuns = <<>>
    /\ ArenaUnmounted
    /\ storage \in [grid : GridItems, bits : BitsItems, mineUncollected : MinesItems]
    /\ loadEffect = "pending"
    /\ lookups = <<>>
    /\ pick = NoPick

\* the effect with no dependencies runs once
Load ==
    /\ loadEffect = "pending"
    /\ \E r \in {loadState([grid |-> grid, bits |-> bits,
                             mineUncollected |-> mineUncollected,
                             storage |-> storage, sectorItem |-> sectorItem,
                             threw |-> FALSE])} :
          /\ grid' = r.grid
          /\ bits' = r.bits
          /\ mineUncollected' = r.mineUncollected
          /\ storage' = r.storage
          /\ sectorItem' = r.sectorItem
          /\ loadEffect' = IF r.threw THEN "threw" ELSE "done"
    /\ UNCHANGED <<activeElement, ticks, capVars, genVars, playerPos, playerDir,
                   playerTrail, opponentPos, opponentDir, opponentTrail,
                   opponentDead, gameOver, didWin, started, winRecorded, steps,
                   catVars, pickVars>>

NextLoad == Load

SpecLoad == InitLoad /\ [][NextLoad]_vars

----------------------------------------------------------------------------
(* Base page with a storage among the cells that are clicked and dragged *)

\* A state an earlier run saved, reached from DefaultState by: move hall
\* 27 -> 50, move storage 36 -> 51, place storage at 27 (1000 bits), place
\* mine at 36 (100 bits), 390 ticks, select 36, collect (4000 bits), select
\* 50, upgrade (hall 2, 0 bits), 300 ticks, select 36, collect (3000 bits),
\* 99 ticks
StorageInReach ==
    [grid |-> GridWith(50 :> 4 @@ 51 :> 2 @@ 27 :> 2 @@ 36 :> 3),
     bits |-> 3000,
     mineUncollected |-> (36 :> 990)]

InitStorageInReach ==
    /\ grid = StorageInReach.grid
    /\ bits = StorageInReach.bits
    /\ mineUncollected = StorageInReach.mineUncollected
    /\ activeElement = NoActive
    /\ ticks = 0
    /\ capGrid = [i \in 0..(CapLen - 1) |-> 0]
    /\ capResult = <<>>
    /\ sectorId = <<>>
    /\ sectorGrid = <<>>
    /\ sectorBits = 0
    /\ genRuns = <<>>
    /\ ArenaUnmounted
    /\ LoadDone
    /\ lookups = <<>>
    /\ pick = NoPick

SpecStorageInReach == InitStorageInReach /\ [][Next]_vars

----------------------------------------------------------------------------
(* Production loop alone: one mine, a fixed grid and pool, no collects *)

MaxProduceTicks == 5
MaxHeadroom == 8

\* layouts with one mine at 36: level 1 under one storage, level 2 under a
\* level-2 storage, level 3 under two storages
OneMineGrids ==
    { GridWith(27 :> 1 @@ 50 :> 2 @@ 36 :> 3),
      GridWith(27 :> 4 @@ 50 :> 5 @@ 36 :> 6),
      GridWith(27 :> 4 @@ 50 :> 2 @@ 51 :> 2 @@ 36 :> 7) }

\* the page with the mine just placed (entry 0) or loaded without an entry,
\* and a pool at most MaxHeadroom tens below the capacity
InitProduce ==
    /\ grid \in OneMineGrids
    /\ bits \in {totalStorageCapacity(grid) - 10 * d : d \in 0..MaxHeadroom}
    /\ mineUncollected \in {EmptyMap, 36 :> 0}
    /\ activeElement = NoActive
    /\ ticks = 0
    /\ capGrid = [i \in 0..(CapLen - 1) |-> 0]
    /\ capResult = <<>>
    /\ sectorId = <<>>
    /\ sectorGrid = <<>>
    /\ sectorBits = 0
    /\ genRuns = <<>>
    /\ ArenaUnmounted
    /\ LoadDone
    /\ lookups = <<>>
    /\ pick = NoPick

\* the interval callback, up to MaxProduceTicks times
Produce ==
    /\ ticks < MaxProduceTicks
    /\ mineUncollected' = productionTick(grid, bits, mineUncollected)
    /\ ticks' = ticks + 1
    /\ UNCHANGED <<grid, bits, activeElement, capVars, genVars, arenaVars, loadVars, catVars, pickVars>>

NextProduce == Produce

SpecProduce == InitProduce /\ [][NextProduce]_vars

----------------------------------------------------------------------------
(* pickRandomIndices step by step, on any stream of draws *)

MaxPickCount == 3
PickMax == 4

InitPick ==
    /\ grid = <<>>
    /\ bits = 2000
    /\ mineUncollected = EmptyMap
    /\ activeElement = NoActive
    /\ ticks = 0
    /\ capGrid = [i \in 0..(CapLen - 1) |-> 0]
    /\ capResult = <<>>
    /\ sectorId = <<>>
    /\ sectorGrid = <<>>
    /\ sectorBits = 0
    /\ genRuns = <<>>
    /\ ArenaUnmounted
    /\ LoadDone
    /\ lookups = <<>>
    /\ \E count \in 0..MaxPickCount, exclude \in SUBSET (0..(PickMax - 1)) :
          pick = pickEntered(count, PickMax, exclude)

\* one iteration: Math.floor(rng() * maxExclusive) gives idx
Draw(idx) ==
    /\ pick.pc = "while"
    /\ pickContinues(pick)
    /\ pick' = pickBody(pick, idx)
    /\ UNCHANGED <<ecoVars, capVars, genVars, arenaVars, loadVars, catVars>>

\* the loop ends: return result
Return ==
    /\ pick.pc = "while"
    /\ ~pickContinues(pick)
    /\ pick' = [pick EXCEPT !.pc = "returned"]
    /\ UNCHANGED <<ecoVars, capVars, genVars, arenaVars, loadVars, catVars>>

NextPick ==
    \/ \E idx \in 0..(PickMax - 1) : Draw(idx)
    \/ Return

SpecPick == InitPick /\ [][NextPick]_vars

\* the loop keeps running, and the stream of draws does not avoid the free
\* indexes for ever: a draw of a taken index leaves the state as it is, so
\* weak fairness of the steps that change it is the fair stream
SpecPickFair == SpecPick /\ WF_vars(NextPick)

----------------------------------------------------------------------------
(* The catalog lookup on registered and unregistered pairs *)

MaxLookups == 2
MaxLookupLevel == 4

\* names the lookup is called with: the catalog's, the empty name of
\* cellValueMap[0] and a name the catalog does not hold
LookupNames == Names \cup {"", "bit-vault"}
LookupLevels == 0..MaxLookupLevel

InitLookup ==
    /\ grid = <<>>
    /\ bits = 2000
    /\ mineUncollected = EmptyMap
    /\ activeElement = NoActive
    /\ ticks = 0
    /\ capGrid = [i \in 0..(CapLen - 1) |-> 0]
    /\ capResult = <<>>
    /\ sectorId = <<>>
    /\ sectorGrid = <<>>
    /\ sectorBits = 0
    /\ genRuns = <<>>
    /\ ArenaUnmounted
    /\ LoadDone
    /\ lookups = <<>>
    /\ pick = NoPick

\* one call of getCellValueByName, and the catalog entry at the code returned
Lookup(name, level) ==
    /\ Len(lookups) < MaxLookups
    /\ \E code \in {getCellValueByName(name, level)} :
          lookups' = Append(lookups, [name |-> name, level |-> level,
                                      code |-> code, def |-> DefAt(code)])
    /\ UNCHANGED <<ecoVars, capVars, genVars, arenaVars, loadVars, pickVars>>

NextLookup == \E name \in LookupNames, level \in LookupLevels : Lookup(name, level)

SpecLookup == InitLookup /\ [][NextLookup]_vars

----------------------------------------------------------------------------
(* Properties *)

\* the catalog codes as the specification names them
MineCodes == {3, 6, 7}
MineLevelOfCode(v) == CASE v = 3 -> 1 [] v = 6 -> 2 [] v = 7 -> 3 [] OTHER -> 0
StorageLevelOfCode(v) == CASE v = 2 -> 1 [] v = 5 -> 2 [] OTHER -> 0

RECURSIVE SumOver(_, _)
SumOver(S, f) ==
    IF S = {} THEN 0
    ELSE LET x == CHOOSE y \in S : TRUE IN f[x] + SumOver(S \ {x}, f)

\* level x 2000 summed over the storage cells
RefCapacity(g) ==
    SumOver(DOMAIN g, [i \in DOMAIN g |-> StorageLevelOfCode(g[i]) * 2000])

RefUncollected(mu) == SumOver(DOMAIN mu, mu)

\* pool + sum(uncollected) <= total storage capacity
WithinCapacity(g, b, mu) == b + RefUncollected(mu) <= RefCapacity(g)

\* C1: a production tick or a collect, taken in a state where pool +
\* sum(uncollected) <= totalStorageCapacity(grid), leads to a state where it
\* still holds; hence it holds after any sequence of ticks and collects.
C1_TickCollectKeepWithinCapacity ==
    [][ ((Tick \/ Collect) /\ WithinCapacity(grid, bits, mineUncollected))
            => WithinCapacity(grid', bits', mineUncollected') ]_vars

\* C1 witness: a tick has filled the storage to the brim and the mine at 36
\* was then collected (200 + 910 bits), the other mine still holding 890
C1_Witness ==
    /\ ticks >= 1
    /\ bits = 1110
    /\ mineUncollected = (52 :> 890)
    /\ bits + RefUncollected(mineUncollected) = RefCapacity(grid)

\* the mines of g in front of index i
MinesBefore(g, i) == {j \in DOMAIN g : j < i /\ g[j] \in MineCodes}

\* what one tick credits to cell i when `room` is the remaining capacity at
\* tick start: the mines are served in ascending grid index, each taking
\* min(10 x level, what the mines in front of it left)
RefCredit(g, room, i) ==
    IF g[i] \notin MineCodes \/ room <= 0 THEN 0
    ELSE LET before == SumOver(MinesBefore(g, i),
                               [j \in MinesBefore(g, i) |-> 10 * MineLevelOfCode(g[j])])
             left == IF room - before > 0 THEN room - before ELSE 0
         IN  IF 10 * MineLevelOfCode(g[i]) <= left
             THEN 10 * MineLevelOfCode(g[i]) ELSE left

\* C2: one tick credits the mines in ascending grid index, each with
\* min(10 x level, remaining capacity); the total credited never exceeds the
\* remaining capacity at tick start; with no remaining capacity or no mine
\* the yield map is unchanged.
C2_TickCreditsInGridOrder ==
    [][ Tick =>
          LET room == RefCapacity(grid) - bits - RefUncollected(mineUncollected)
              mines == {i \in DOMAIN grid : grid[i] \in MineCodes}
          IN  /\ \A i \in DOMAIN grid :
                    Get(mineUncollected', i)
                        = Get(mineUncollected, i) + RefCredit(grid, room, i)
              /\ DOMAIN mineUncollected \subseteq DOMAIN mineUncollected'
              /\ DOMAIN mineUncollected' \subseteq DOMAIN mineUncollected \cup mines
              /\ RefUncollected(mineUncollected') - RefUncollected(mineUncollected)
                    <= (IF room > 0 THEN room ELSE 0)
              /\ (room <= 0 \/ mines = {}) => mineUncollected' = mineUncollected
    ]_vars

\* C2 witness: with 10 bits of room, the level-2 mine at 36 took them all
\* and the level-1 mine at 52 behind it got nothing
C2_Witness ==
    /\ ticks = 1
    /\ grid[36] = 6 /\ grid[52] = 3
    /\ bits = 1300
    /\ mineUncollected = (36 :> 1810 @@ 52 :> 890)

\* C3: a collect that changes the state moves min(pending, capacity - pool)
\* from the entry of the selected index to the pool, keeps pool +
\* sum(uncollected), leaves every other entry alone, and deletes the entry
\* when nothing remains in it.
C3_CollectMovesPending ==
    [][ (Collect /\ <<bits, mineUncollected>>' # <<bits, mineUncollected>>) =>
          LET idx == activeElement.index
              pending == Get(mineUncollected, idx)
              room == RefCapacity(grid) - bits
              moved == IF pending <= room THEN pending ELSE room
          IN  /\ moved > 0
              /\ bits' = bits + moved
              /\ Get(mineUncollected', idx) = pending - moved
              /\ (pending - moved = 0) => idx \notin DOMAIN mineUncollected'
              /\ \A k \in (DOMAIN mineUncollected \cup DOMAIN mineUncollected') \ {idx} :
                    /\ k \in DOMAIN mineUncollected
                    /\ k \in DOMAIN mineUncollected'
                    /\ mineUncollected'[k] = mineUncollected[k]
              /\ bits' + RefUncollected(mineUncollected')
                    = bits + RefUncollected(mineUncollected)
    ]_vars

\* C3 witness: the selected mine at 36 was drained into the pool (100 + 3900
\* bits) and its entry is gone
C3_Witness ==
    /\ activeElement = [name |-> "bit-mine", level |-> 1, index |-> 36]
    /\ grid[36] = 3
    /\ bits = 4000
    /\ mineUncollected = EmptyMap

\* the specification's reading of the catalog and of the unlock table
HallLevelOfCode(v) == CASE v = 1 -> 1 [] v = 4 -> 2 [] OTHER -> 0
RefHubLevel(g) ==
    IF \E i \in DOMAIN g : g[i] = 4 THEN 2
    ELSE IF \E i \in DOMAIN g : g[i] = 1 THEN 1 ELSE 0
RefCodesOf(name) ==
    CASE name = "grid-hall"   -> {1, 4}
      [] name = "bit-storage" -> {2, 5}
      [] name = "bit-mine"    -> {3, 6, 7}
      [] name = "lab"         -> {8}
      [] name = "portal"      -> {9}
      [] OTHER                -> {}
RefLevel1Code(name) ==
    CASE name = "grid-hall" -> 1 [] name = "bit-storage" -> 2
      [] name = "bit-mine" -> 3 [] name = "lab" -> 8 [] name = "portal" -> 9
RefPrice(name) ==
    CASE name = "bit-storage" -> 1000 [] name = "bit-mine" -> 900 [] OTHER -> 2000
RefAllowedCount(hub, name) ==
    CASE hub = 1 /\ name \in {"bit-storage", "bit-mine"} -> 2
      [] hub = 1 /\ name = "grid-hall" -> 1
      [] hub = 2 /\ name = "bit-storage" -> 2
      [] hub = 2 /\ name = "bit-mine" -> 3
      [] hub = 2 /\ name \in {"lab", "grid-hall", "portal"} -> 1
      [] OTHER -> 0
RefPlacedCount(g, name) == Cardinality({i \in DOMAIN g : g[i] \in RefCodesOf(name)})
\* allowed by the tier of the highest hub minus already placed, at least 0
RefAllowance(g, name) ==
    LET d == RefAllowedCount(RefHubLevel(g), name) - RefPlacedCount(g, name)
    IN  IF d > 0 THEN d ELSE 0

ShopDrag(item) == [type |-> "shop", item |-> item, fromIndex |-> -1]
GridDrag(from) == [type |-> "grid", item |-> "", fromIndex |-> from]

\* C4: a place that changes the state had an empty target, a remaining
\* allowance > 0 and pool >= price; it writes the item's level-1 code at the
\* target and nothing else in the grid, debits exactly the price, and sets
\* the yield-map entry of the target to 0 for a mine, leaving the yield map
\* alone for any other item.
C4_PlaceEffect ==
    [][ \A item \in Names, i \in Cells :
          (<<grid, bits, mineUncollected>>' # <<grid, bits, mineUncollected>> /\ Place(item, i))
          => /\ grid[i] = 0
             /\ RefAllowance(grid, item) > 0
             /\ bits >= RefPrice(item)
             /\ grid' = [grid EXCEPT ![i] = RefLevel1Code(item)]
             /\ bits' = bits - RefPrice(item)
             /\ mineUncollected' =
                   IF item = "bit-mine"
                   THEN [k \in DOMAIN mineUncollected \cup {i} |->
                            IF k = i THEN 0 ELSE mineUncollected[k]]
                   ELSE mineUncollected
    ]_vars

\* C4 witness: a mine was bought for 900 of the 2000 starting bits and put on
\* the empty cell 10, its yield-map entry starting at 0
C4_Witness ==
    /\ grid[10] = 3 /\ grid[27] = 1 /\ grid[36] = 2
    /\ bits = 1100
    /\ mineUncollected = (10 :> 0)

\* the max level the unlock records of hub tiers 1..hub give a name
RefMaxLevel(hub, name) ==
    CASE hub = 1 /\ name \in {"bit-storage", "bit-mine"} -> 1
      [] hub = 1 /\ name = "grid-hall" -> 2
      [] hub = 2 /\ name = "bit-storage" -> 2
      [] hub = 2 /\ name = "bit-mine" -> 3
      [] hub = 2 /\ name = "grid-hall" -> 3
      [] hub = 2 /\ name \in {"lab", "portal"} -> 1
      [] OTHER -> 0
\* the catalog has a code for (name, level)
RefHasCode(name, level) ==
    \/ level = 1 /\ name \in Names
    \/ level = 2 /\ name \in {"grid-hall", "bit-storage", "bit-mine"}
    \/ level = 3 /\ name = "bit-mine"

\* C5: in every reachable state every refused action would leave grid, pool
\* and yield map (and the selection) as they are: a place on an occupied
\* target, with no allowance or with pool < price; a move onto an occupied
\* target or onto its own cell; a collect with nothing pending or a full
\* pool; an upgrade at the max level, without a catalog code for the next
\* level or with pool < cost.
C5_RefusalsChangeNothing ==
    LET same == [grid |-> grid, bits |-> bits, mineUncollected |-> mineUncollected]
        ae == activeElement
    IN  /\ \A item \in Names, i \in Cells :
              (grid[i] # 0 \/ RefAllowance(grid, item) = 0 \/ bits < RefPrice(item))
              => onDrop(grid, bits, mineUncollected, ShopDrag(item), i) = same
        /\ \A from \in Cells, i \in Cells :
              (grid[i] # 0 \/ from = i)
              => onDrop(grid, bits, mineUncollected, GridDrag(from), i) = same
        /\ (ae.name = "bit-mine"
               /\ (Get(mineUncollected, ae.index) = 0 \/ bits >= RefCapacity(grid)))
              => collectOnClick(grid, bits, mineUncollected, ae)
                    = [bits |-> bits, mineUncollected |-> mineUncollected]
        /\ (ae.name # ""
               /\ \/ ae.level + 1 > RefMaxLevel(RefHubLevel(grid), ae.name)
                  \/ ~RefHasCode(ae.name, ae.level + 1)
                  \/ bits < RefPrice(ae.name) * (ae.level + 1))
              => upgradeOnClick(grid, bits, ae)
                    = [grid |-> grid, bits |-> bits, activeElement |-> ae]

\* C5 witness: the mine at 36 was collected and is still selected: nothing is
\* pending for a second collect, it is at its max level, both mines allowed
\* are placed, and cells 27 and 36 are occupied targets
C5_Witness ==
    /\ activeElement = [name |-> "bit-mine", level |-> 1, index |-> 36]
    /\ grid[27] = 1 /\ grid[36] = 3 /\ grid[10] = 0
    /\ 36 \notin DOMAIN mineUncollected
    /\ RefAllowance(grid, "bit-mine") = 0
    /\ bits = 1100

\* C6: a move from an occupied cell A to an empty cell B # A puts the old
\* code of A at B and empties A, leaves the pool and every other cell alone,
\* and, for a mine, moves its uncollected amount from key A to key B (key A
\* removed, every other entry kept); for any other building the yield map is
\* unchanged.
C6_MoveEffect ==
    [][ \A from \in Cells, i \in Cells :
          (from # i /\ grid[i] = 0 /\ Move(from, i))
          => /\ grid' = [k \in DOMAIN grid |->
                            IF k = i THEN grid[from] ELSE IF k = from THEN 0 ELSE grid[k]]
             /\ bits' = bits
             /\ IF grid[from] \in MineCodes
                THEN /\ from \notin DOMAIN mineUncollected'
                     /\ i \in DOMAIN mineUncollected'
                     /\ mineUncollected'[i] = Get(mineUncollected, from)
                     /\ \A k \in (DOMAIN mineUncollected \cup DOMAIN mineUncollected') \ {from, i} :
                           /\ k \in DOMAIN mineUncollected
                           /\ k \in DOMAIN mineUncollected'
                           /\ mineUncollected'[k] = mineUncollected[k]
                ELSE mineUncollected' = mineUncollected
    ]_vars

\* C6 witness: the mine of cell 36 now stands on cell 10 with its 3890
\* uncollected bits under key 10, and cell 36 is empty
C6_Witness ==
    /\ grid[10] = 3 /\ grid[36] = 0
    /\ mineUncollected = (10 :> 3890)
    /\ bits = 100

RefLevelOfCode(v) ==
    CASE v \in {1, 2, 3, 8, 9} -> 1 [] v \in {4, 5, 6} -> 2 [] v = 7 -> 3 [] OTHER -> 0
\* cell code v is the building (name, level)
RefIs(v, name, level) == v \in RefCodesOf(name) /\ RefLevelOfCode(v) = level

\* C7: an upgrade that changes the state had level+1 <= max level of the
\* name for the hub tier, a catalog code for (name, level+1) and pool >=
\* base cost x (level+1); the cell at the selected index held (name, level)
\* before it and holds (name, level+1) after it, no other cell changes, and
\* the pool is debited by exactly the cost; whatever happened between the
\* selection and the upgrade.
C7_UpgradeInPlace ==
    [][ (<<grid, bits>>' # <<grid, bits>> /\ Upgrade) =>
          LET ae == activeElement
              cost == RefPrice(ae.name) * (ae.level + 1)
          IN  /\ ae.level + 1 <= RefMaxLevel(RefHubLevel(grid), ae.name)
              /\ RefHasCode(ae.name, ae.level + 1)
              /\ bits >= cost
              /\ bits' = bits - cost
              /\ RefIs(grid[ae.index], ae.name, ae.level)
              /\ RefIs(grid'[ae.index], ae.name, ae.level + 1)
              /\ \A k \in DOMAIN grid \ {ae.index} : grid'[k] = grid[k]
    ]_vars

\* C8: every key of the yield map is a grid index that holds a mine, and
\* every value is a non-negative integer.
C8_YieldKeysAreMines ==
    \A k \in DOMAIN mineUncollected :
        /\ k \in DOMAIN grid
        /\ grid[k] \in MineCodes
        /\ mineUncollected[k] \in Nat

\* C9: the pool is never negative.
C9_PoolNeverNegative == bits >= 0

\* C9 witness: the hall upgrade took the whole pool (4000 bits), leaving 0
C9_Witness ==
    /\ bits = 0
    /\ \E i \in Cells : grid[i] = 4
    /\ activeElement.name = "grid-hall" /\ activeElement.level = 2

\* C10: the capacity computed for a grid is >= 0 and is the sum of level x
\* 2000 over its storage cells; any other cell (hub, mine, lab, portal,
\* empty, code outside the catalog) adds nothing.
C10_CapacityIsStorageSum ==
    capResult # <<>> =>
        /\ capResult[1] >= 0
        /\ capResult[1] = 2000 * Cardinality({i \in DOMAIN capGrid : capGrid[i] = 2})
                          + 4000 * Cardinality({i \in DOMAIN capGrid : capGrid[i] = 5})

\* C10 witness: a level-1 storage, a level-2 storage and a code past the end
\* of the catalog give 6000
C10_Witness ==
    /\ capResult = <<6000>>
    /\ \E i, j, k \in DOMAIN capGrid :
          capGrid[i] = 2 /\ capGrid[j] = 5 /\ capGrid[k] = Len(cellValueMap)

\* the names the unlock record of hub tier `hub` lists
RefListed(hub) ==
    CASE hub = 1 -> {"bit-storage", "bit-mine", "grid-hall"}
      [] hub = 2 -> {"bit-storage", "bit-mine", "lab", "grid-hall", "portal"}
      [] OTHER -> {}

CellsWith(g, codes) == {i \in DOMAIN g : g[i] \in codes}

\* C13: the generated grid has 64 cells; it holds exactly one hub, of level
\* 1, one or two storages, one or two mines, at most one lab, at most one
\* portal and nothing else; the cells written are pairwise distinct, so the
\* non-empty cells are as many as the buildings placed.
C13_GeneratedBaseShape ==
    \A k \in DOMAIN genRuns :
        LET g == genRuns[k].grid
            placed == genRuns[k].placed
        IN  /\ DOMAIN g = 0..63
            /\ Cardinality(CellsWith(g, {1})) = 1
            /\ CellsWith(g, {4}) = {}
            /\ Cardinality(CellsWith(g, {2, 5})) \in {1, 2}
            /\ Cardinality(CellsWith(g, {3, 6})) \in {1, 2}
            /\ Cardinality(CellsWith(g, {8})) <= 1
            /\ Cardinality(CellsWith(g, {9})) <= 1
            /\ \A i \in DOMAIN g : g[i] \in {0, 1, 2, 5, 3, 6, 8, 9}
            /\ \A m, n \in DOMAIN placed : m # n => placed[m] # placed[n]
            /\ Cardinality({i \in DOMAIN g : g[i] # 0}) = Len(placed)

\* C13 witness: sector 14, where a drawn index was already taken and drawn
\* again: hub at 58, storages at 8 and 52, mines at 30 and 38
C13_Witness ==
    /\ sectorId = <<49, 52>>
    /\ CellsWith(sectorGrid, {1}) = {58}
    /\ CellsWith(sectorGrid, {2, 5}) = {8, 52}
    /\ CellsWith(sectorGrid, {3, 6}) = {30, 38}
    /\ Len(genRuns[Len(genRuns)].placed) = 5

\* C14: the initial fill is an integer f with 0 <= f < min(total storage
\* capacity of the generated grid, 2000), and 0 when that capacity is 0.
C14_InitialFillRange ==
    \A k \in DOMAIN genRuns :
        LET capacity == RefCapacity(genRuns[k].grid)
            f == genRuns[k].bits
        IN  /\ f \in Int
            /\ capacity = 0 => f = 0
            /\ capacity > 0 =>
                  /\ 0 <= f
                  /\ f < (IF capacity < 2000 THEN capacity ELSE 2000)

\* C14 witness: sector 8, with a level-2 and a level-1 storage (capacity
\* 6000) and a fill of 1823, below 2000
C14_Witness ==
    /\ sectorId = <<56>>
    /\ RefCapacity(sectorGrid) = 6000
    /\ sectorBits = 1823

\* the arena as the specification describes it
Session ==
    IF gameOver THEN (IF didWin THEN "Won" ELSE "Lost")
    ELSE IF started THEN "Running" ELSE "NotStarted"
SessionAfter(r) ==
    IF r.gameOver THEN (IF r.didWin THEN "Won" ELSE "Lost")
    ELSE IF r.started THEN "Running" ELSE "NotStarted"
\* the point half a cell from p in direction d (coordinates doubled)
RefNext(p, d) ==
    [x |-> p.x + (IF d = "right" THEN 1 ELSE IF d = "left" THEN -1 ELSE 0),
     y |-> p.y + (IF d = "down" THEN 1 ELSE IF d = "up" THEN -1 ELSE 0)]
RefReverse(d) ==
    CASE d = "up" -> "down" [] d = "down" -> "up"
      [] d = "left" -> "right" [] d = "right" -> "left"
RefDirOfKey(key) ==
    CASE key = "w" -> "up" [] key = "s" -> "down"
      [] key = "a" -> "left" [] key = "d" -> "right"
\* p lies inside the cell of the hub
RefInHub(g, p) ==
    \E i \in DOMAIN g :
        /\ g[i] \in {1, 4}
        /\ p.x \in {2 * (i % 8), 2 * (i % 8) + 1}
        /\ p.y \in {2 * (i \div 8), 2 * (i \div 8) + 1}
RefTrailPoints == Range(playerTrail) \cup Range(opponentTrail)
\* the persisted sector id; 1 when nothing is stored
RefSectorNumber(item) ==
    CASE item = <<>> -> 1 [] item = <<49>> -> 1 [] item = <<50>> -> 2
      [] item = <<51>> -> 3 [] item = <<52>> -> 4 [] item = <<53>> -> 5
      [] OTHER -> 0

\* C15: the session changes only NotStarted -> Running by the start action,
\* Running -> Won or Lost by a step, and any state -> NotStarted by reset; Won
\* and Lost never turn into each other; the win flag is set only when the
\* session is over; resetGame gives NotStarted in every state.
C15_SessionStateMachine ==
    [][ /\ (Session' = "Running" /\ Session # "Running")
              => (Session = "NotStarted" /\ Start)
        /\ (Session' \in {"Won", "Lost"} /\ Session' # Session)
              => (Session = "Running" /\ Step)
        /\ ~(Session = "Won" /\ Session' = "Lost")
        /\ ~(Session = "Lost" /\ Session' = "Won")
        /\ (Session' = "NotStarted" /\ Session # "NotStarted") => Reset
        /\ didWin => gameOver
        /\ didWin' => gameOver'
        /\ Session' = "NotStarted" \/ ~Reset
        /\ \A pIndex \in pPool(sectorGrid) \cap StartCells,
              oIndex \in oPool(sectorGrid) \cap StartCells :
              SessionAfter(resetGame(ArenaState, pIndex, oIndex)) = "NotStarted"
    ]_vars

\* C15 witness: a session was started, won (the stored sector id went from
\* absent to 2) and reset: it is NotStarted again
C15_Witness ==
    /\ Session = "NotStarted"
    /\ sectorItem = <<50>>
    /\ ~winRecorded
    /\ Len(playerTrail) = 1

\* C16: while the session is Won or Lost, every step other than a reset
\* leaves positions, trails, facings, the opponent-eliminated flag and the win
\* flag as they are; no interval runs and every key is ignored.
C16_TerminalIsFrozen ==
    [][ gameOver =>
          /\ Reset \/ UNCHANGED <<playerPos, playerDir, playerTrail, opponentPos,
                                  opponentDir, opponentTrail, opponentDead,
                                  gameOver, didWin>>
          /\ ~Step
    ]_vars

\* C16 witness: the session is Lost after the player, on (6, 15), ran into
\* the trail the opponent left on the bottom row; the opponent turned up to
\* (6, 14) in that step
C16_Witness ==
    /\ Session = "Lost"
    /\ playerPos = [x |-> 6, y |-> 15]
    /\ opponentPos = [x |-> 6, y |-> 14]
    /\ playerDir = "right"

\* C17: in every step, the player whose next point is in either trail as of
\* step start, or is the opponent's position at step start, is eliminated
\* (the session is Lost); a live opponent whose next point is in either
\* trail, or is the player's position at step start, is eliminated; also for
\* points inside the hub cell.
C17_TrailIsLethal ==
    [][ Step =>
          LET nextP == RefNext(playerPos, playerDir)
              nextO == RefNext(opponentPos, opponentDir')
          IN  /\ (nextP \in RefTrailPoints \/ nextP = opponentPos)
                    => (gameOver' /\ ~didWin')
              /\ (~opponentDead /\ (nextO \in RefTrailPoints \/ nextO = playerPos))
                    => opponentDead'
    ]_vars

\* C18: a step in which the player's next point lies in the hub cell while
\* the opponent is alive leaves the session Running, moves the player onto the
\* point and appends the point to the player's trail.
C18_HubEntryOpponentAlive ==
    [][ (Step /\ ~opponentDead /\ opponentPos # NoPos
              /\ RefInHub(sectorGrid, RefNext(playerPos, playerDir)))
          => /\ Session' = "Running"
             /\ playerPos' = RefNext(playerPos, playerDir)
             /\ playerTrail' = playerTrail \o <<RefNext(playerPos, playerDir)>>
    ]_vars

\* C18 witness: the player stands on (4, 15) inside the hub cell 58 after the
\* first step, the opponent alive, the session Running
C18_Witness ==
    /\ Session = "Running"
    /\ playerPos = [x |-> 4, y |-> 15]
    /\ playerTrail = <<[x |-> 3, y |-> 15], [x |-> 4, y |-> 15]>>
    /\ ~opponentDead
    /\ steps = 1

\* C19: a step in which the player's next point lies in the hub cell while
\* the opponent is eliminated makes the session Won and adds exactly 1 to the
\* persisted sector id; the id changes in no other step: not in a step that
\* is not a win, and not again in a session whose win is recorded.
C19_WinRecordedOnce ==
    [][ /\ (Step /\ opponentDead
                 /\ RefInHub(sectorGrid, RefNext(playerPos, playerDir)))
              => /\ Session' = "Won"
                 /\ RefSectorNumber(sectorItem') = RefSectorNumber(sectorItem) + 1
        /\ sectorItem' # sectorItem
              => /\ Step
                 /\ Session = "Running" /\ Session' = "Won"
                 /\ ~winRecorded /\ winRecorded'
                 /\ RefSectorNumber(sectorItem') = RefSectorNumber(sectorItem) + 1
        /\ (winRecorded /\ ~winRecorded') => Reset
        /\ winRecorded => sectorItem' = sectorItem
    ]_vars

\* C19 witness: the second session on the page was won: the opponent is
\* eliminated, the player stands in the hub cell and the stored id is 3
C19_Witness ==
    /\ Session = "Won"
    /\ opponentDead
    /\ RefInHub(sectorGrid, playerPos)
    /\ winRecorded
    /\ sectorItem = <<51>>

\* C20 as claimed: in every state a request for the reverse of the current
\* facing leaves the facing as it is, and a request for any other direction
\* sets the facing to it.
C20_FacingRequests ==
    \A key \in Keys :
        onKey(gameOver, playerDir, key)
            = IF RefDirOfKey(key) = RefReverse(playerDir)
              THEN playerDir ELSE RefDirOfKey(key)

\* C20 amended: while the session is not over, a request for the reverse of
\* the current facing leaves the facing as it is and a request for any other
\* direction sets the facing to it; once the session is over every request
\* leaves the facing as it is.
C20_FacingRequestsWhileNotOver ==
    \A key \in Keys :
        onKey(gameOver, playerDir, key)
            = IF gameOver \/ RefDirOfKey(key) = RefReverse(playerDir)
              THEN playerDir ELSE RefDirOfKey(key)

\* C20 witness: in a running session the player was turned up and left and
\* now faces left, which a request for "right" would not change
C20_Witness ==
    /\ Session = "Running"
    /\ playerDir = "left"
    /\ steps >= 1
    /\ onKey(gameOver, playerDir, "d") = "left"

\* p is outside the 8x8 arena (coordinates doubled)
RefOutside(p) == p.x \notin 0..15 \/ p.y \notin 0..15
\* p lies inside a cell that holds a building other than the hub
RefInBuilding(g, p) ==
    \E i \in DOMAIN g :
        /\ g[i] \notin {0, 1, 4}
        /\ p.x \in {2 * (i % 8), 2 * (i % 8) + 1}
        /\ p.y \in {2 * (i \div 8), 2 * (i \div 8) + 1}

\* C21: a step in which the player's next point is outside the arena, or in
\* a cell holding a non-hub building, makes the session Lost and leaves the
\* player's position and trail as they were before the step.
C21_LeavingOrBuildingLoses ==
    [][ (Step /\ (\/ RefOutside(RefNext(playerPos, playerDir))
                  \/ RefInBuilding(sectorGrid, RefNext(playerPos, playerDir))))
          => /\ Session' = "Lost"
             /\ playerPos' = playerPos
             /\ playerTrail' = playerTrail
    ]_vars

\* C21 witness: the session is Lost with the player on (2.5, 6.5) facing
\* right, the next point (3.0, 6.5) lying in the cell of the mine at 51
C21_Witness ==
    /\ Session = "Lost"
    /\ playerPos = [x |-> 5, y |-> 13]
    /\ playerDir = "right"
    /\ RefInBuilding(sectorGrid, RefNext(playerPos, playerDir))
    /\ playerTrail[Len(playerTrail)] = playerPos

\* C22: the opponent is eliminated only by a step; the step empties its
\* trail and takes its position away, and leaves the session Running unless
\* the player's own next point (outside, in a building, on a trail or on the
\* opponent) ended it; an eliminated opponent has no position and no trail,
\* and stays so in every step but a reset.
C22_OpponentElimination ==
    [][ /\ (~opponentDead /\ opponentDead')
              => /\ Step
                 /\ opponentTrail' = <<>>
                 /\ opponentPos' = NoPos
                 /\ \/ Session' = "Running"
                    \/ /\ Session' = "Lost"
                       /\ LET nextP == RefNext(playerPos, playerDir)
                          IN  \/ RefOutside(nextP)
                              \/ RefInBuilding(sectorGrid, nextP)
                              \/ nextP \in RefTrailPoints
                              \/ nextP = opponentPos
        /\ opponentDead
              => /\ opponentPos = NoPos /\ opponentTrail = <<>>
                 /\ \/ Reset
                    \/ (opponentDead' /\ opponentPos' = NoPos /\ opponentTrail' = <<>>)
    ]_vars

\* C22 witness: the opponent, started in the corner cell 7, was eliminated
\* in the fourth step; after the fifth step the session is still Running and
\* the opponent has neither a position nor a trail
C22_Witness ==
    /\ Session = "Running"
    /\ opponentDead
    /\ opponentPos = NoPos
    /\ opponentTrail = <<>>
    /\ steps = 5
    /\ Len(playerTrail) = 6

\* the centre of cell i (coordinates doubled)
RefCentre(i) == [x |-> 2 * (i % 8) + 1, y |-> 2 * (i \div 8) + 1]
RefEmpty(g) == {i \in 0..63 : g[i] = 0}
\* the cell the point p lies in
RefCellAt(p) == 8 * (p.y \div 2) + (p.x \div 2)

\* C23: right after reset on a grid with at least two empty cells, the two
\* agents stand on the centres of two distinct empty cells, the player in a
\* column below 4 when the left half has an empty cell and the opponent in a
\* column from 4 on when the right half has one; the player faces right, the
\* opponent left, each trail is the agent's own starting point, and the
\* opponent is alive.
C23_ResetPlacesAgents ==
    (playerPos # NoPos /\ Cardinality(RefEmpty(sectorGrid)) >= 2) =>
        LET i == RefCellAt(playerPos)
            j == RefCellAt(opponentPos)
        IN  /\ i \in RefEmpty(sectorGrid) /\ j \in RefEmpty(sectorGrid)
            /\ i # j
            /\ playerPos = RefCentre(i)
            /\ opponentPos = RefCentre(j)
            /\ (\E k \in RefEmpty(sectorGrid) : k % 8 < 4) => i % 8 < 4
            /\ (\E k \in RefEmpty(sectorGrid) : k % 8 >= 4) => j % 8 >= 4
            /\ playerDir = "right"
            /\ opponentDir = "left"
            /\ playerTrail = <<playerPos>>
            /\ opponentTrail = <<opponentPos>>
            /\ ~opponentDead

\* C23 witness: on the base of sector 14 the reset put the player on the
\* centre of cell 0 and the opponent on the centre of cell 63
C23_Witness ==
    /\ sectorId = <<49, 52>>
    /\ playerPos = [x |-> 1, y |-> 1]
    /\ opponentPos = [x |-> 15, y |-> 15]
    /\ playerTrail = <<playerPos>>
    /\ opponentTrail = <<opponentPos>>

\* what the specification has the page load from an item: the saved value
\* of a well-formed item, the default of an absent or malformed one
RefLoadedGrid(t) ==
    IF \E g \in SavedGrids : stringifyArray(g) = t
    THEN CHOOSE g \in SavedGrids : stringifyArray(g) = t
    ELSE [i \in 0..63 |-> IF i = 27 THEN 1 ELSE IF i = 36 THEN 2 ELSE 0]
RefLoadedBits(t) ==
    CASE t = <<50, 48, 48>> -> 200
      [] t = <<49, 48, 48>> -> 100
      [] t = <<49, 51, 48, 48>> -> 1300
      [] OTHER -> 2000
RefLoadedMines(t) ==
    IF \E m \in SavedMines : stringifyRecord(m) = t
    THEN CHOOSE m \in SavedMines : stringifyRecord(m) = t
    ELSE EmptyMap

\* C24: the load never fails, and loads from each of the items "grid",
\* "bits" and "mineUncollected" its saved value, or the default (starter
\* layout, 2000, empty map) when the item is absent or malformed, whatever
\* the other items are.
C24_MalformedLoadsAsAbsent ==
    [][ Load => /\ loadEffect' = "done"
                /\ grid' = RefLoadedGrid(storage.grid)
                /\ bits' = RefLoadedBits(storage.bits)
                /\ mineUncollected' = RefLoadedMines(storage.mineUncollected)
    ]_vars


\* the (name, level) pairs the catalog registers: its building definitions
RefRegistered ==
    { <<"grid-hall", 1>>, <<"grid-hall", 2>>,
      <<"bit-storage", 1>>, <<"bit-storage", 2>>,
      <<"bit-mine", 1>>, <<"bit-mine", 2>>, <<"bit-mine", 3>>,
      <<"lab", 1>>, <<"portal", 1>> }

RefPair(c) == <<c.name, c.level>>

RefMineLevel(g) == MineLevelOfCode(g[36])
RefHeadroom(g, b) == RefCapacity(g) - b

\* C26: with one level-L mine, capacity C, a fixed pool P <= C and no
\* collects, the mine's uncollected amount after n ticks is
\* min(10 * L * n, C - P), and a tick at uncollected = C - P changes nothing.
C26_SingleMineClosedForm ==
    [][ Produce =>
          /\ Get(mineUncollected', 36)
                 = Min(10 * RefMineLevel(grid) * ticks', RefHeadroom(grid, bits))
          /\ Get(mineUncollected, 36) = RefHeadroom(grid, bits)
                 => mineUncollected' = mineUncollected
          /\ DOMAIN mineUncollected' \subseteq {36}
    ]_vars

\* a level-3 mine with 50 bits of headroom after three ticks: 30, 50, 50
C26_Witness ==
    /\ ticks = 3
    /\ grid[36] = 7
    /\ bits = 3950
    /\ mineUncollected = 36 :> 50


\* the turns as seen by an agent heading d (y grows downwards)
RefLeft(d) ==
    CASE d = "up" -> "left" [] d = "left" -> "down"
      [] d = "down" -> "right" [] d = "right" -> "up"
RefRight(d) ==
    CASE d = "up" -> "right" [] d = "right" -> "down"
      [] d = "down" -> "left" [] d = "left" -> "up"
\* the opponent's candidate facings, in the order they are tried
RefCandidates(d) == <<d, RefLeft(d), RefRight(d), RefReverse(d)>>
\* the next point of the opponent heading d is in bounds, in no cell holding
\* a non-hub building and in neither trail
RefFree(d) ==
    /\ ~RefOutside(RefNext(opponentPos, d))
    /\ ~RefInBuilding(sectorGrid, RefNext(opponentPos, d))
    /\ RefNext(opponentPos, d) \notin RefTrailPoints

\* C27: a step with the opponent alive sets its facing to the first of
\* [current, left turn, right turn, reverse] whose next point is free; when
\* none is free the facing stays and the opponent is eliminated in the step.
C27_OpponentFacing ==
    [][ (Step /\ opponentPos # NoPos /\ ~opponentDead) =>
          IF \E k \in 1..4 : RefFree(RefCandidates(opponentDir)[k])
          THEN \E k \in 1..4 :
                  /\ RefFree(RefCandidates(opponentDir)[k])
                  /\ \A j \in 1..(k - 1) : ~RefFree(RefCandidates(opponentDir)[j])
                  /\ opponentDir' = RefCandidates(opponentDir)[k]
                  /\ ~opponentDead'
          ELSE /\ opponentDir' = opponentDir
               /\ opponentDead'
               /\ opponentPos' = NoPos
    ]_vars

\* the opponent started in the corner cell 7: left, up (storage ahead),
\* right (edge ahead), then closed in by the edges and its own trail
C27_Witness ==
    /\ steps = 4
    /\ opponentDead
    /\ opponentDir = "right"
    /\ ~gameOver


\* C28: between two resets the player's trail only grows at its end: a step
\* the player survives appends the new position, and every other step, key
\* press or start leaves the trail as it was.
C28_PlayerTrailAppendOnly ==
    [][ (Start \/ (\E key \in Keys : Key(key)) \/ Step) =>
          IF Step /\ Session' # "Lost"
          THEN /\ playerPos' = RefNext(playerPos, playerDir)
               /\ playerTrail' = Append(playerTrail, playerPos')
          ELSE playerTrail' = playerTrail
    ]_vars

\* three steps survived with a turn in between: the start point and three
\* more points
C28_Witness ==
    /\ steps = 3
    /\ Session = "Running"
    /\ playerDir = "up"
    /\ Len(playerTrail) = 4
    /\ playerTrail[4] = playerPos


\* the indexes below maxExclusive outside the exclude set
RefFreeIndexes == (0..(pick.maxExclusive - 1)) \ pick.exclude

\* C29: the draw never returns an excluded index or the same index twice,
\* and under a fair stream of draws it terminates, with exactly `count`
\* indexes when that many are free and with all the free ones otherwise.
C29_DistinctDrawTerminates ==
    /\ [](/\ \A k \in DOMAIN pick.result : pick.result[k] \in RefFreeIndexes
          /\ \A j, k \in DOMAIN pick.result :
                 j # k => pick.result[j] # pick.result[k])
    /\ <>(pick.pc = "returned")
    /\ [](pick.pc = "returned" =>
             IF Cardinality(RefFreeIndexes) >= pick.count
             THEN Len(pick.result) = pick.count
             ELSE Range(pick.result) = RefFreeIndexes)

\* three asked with two free: both free indexes returned, after a draw of
\* each
C29_Witness ==
    /\ pick.pc = "returned"
    /\ pick.count = 3
    /\ pick.exclude = {0, 2}
    /\ pick.result = <<3, 1>>


\* the storage cells that come before cell i in the fill order: lower level,
\* or the same level and a lower index
RefEarlier(g, i) ==
    {j \in DOMAIN g :
        /\ StorageLevelOfCode(g[j]) > 0
        /\ \/ StorageLevelOfCode(g[j]) < StorageLevelOfCode(g[i])
           \/ StorageLevelOfCode(g[j]) = StorageLevelOfCode(g[i]) /\ j < i}
\* what is left of the pool for cell i, and the part of it the cell holds
RefRemaining(g, b, i) ==
    b - SumOver(RefEarlier(g, i), [j \in DOMAIN g |-> StorageLevelOfCode(g[j]) * 2000])
RefAssigned(g, b, i) ==
    IF RefRemaining(g, b, i) <= 0 THEN 0
    ELSE IF RefRemaining(g, b, i) >= StorageLevelOfCode(g[i]) * 2000
         THEN StorageLevelOfCode(g[i]) * 2000
         ELSE RefRemaining(g, b, i)
\* min(4, ceil(4 * assigned / capacity)): the least k in 0..4 with
\* 4 * assigned <= k * capacity
RefFillIndex(g, b, i) ==
    CHOOSE k \in 0..4 :
        /\ 4 * RefAssigned(g, b, i) <= k * StorageLevelOfCode(g[i]) * 2000
        /\ \A m \in 0..(k - 1) :
               4 * RefAssigned(g, b, i) > m * StorageLevelOfCode(g[i]) * 2000

\* C30: every storage cell has a fill-level index, an integer in 0..4 equal
\* to min(4, ceil(4 * assigned / capacity)) with the pool assigned by
\* ascending level, then ascending grid index; a storage shows a non-zero
\* fill only if every storage earlier in that order is full.
C30_StorageFillIndex ==
    \A i \in DOMAIN grid :
        StorageLevelOfCode(grid[i]) > 0 =>
            /\ i \in DOMAIN storageImageByIndex(grid, bits)
            /\ storageImageByIndex(grid, bits)[i] \in 0..4
            /\ storageImageByIndex(grid, bits)[i] = RefFillIndex(grid, bits, i)
            /\ storageImageByIndex(grid, bits)[i] > 0 =>
                   \A j \in RefEarlier(grid, i) :
                       storageImageByIndex(grid, bits)[j] = 4

\* C31: in every state reached from the default start by select, place,
\* move, upgrade, tick and collect, pool + sum(uncollected) <= total storage
\* capacity, and no action lowers the total storage capacity.
C31_CapacityNeverExceeded ==
    [][ /\ RefCapacity(grid') >= RefCapacity(grid)
        /\ WithinCapacity(grid', bits', mineUncollected')
    ]_vars

\* the number of cells holding a building
RefNonEmpty(g) == Cardinality({i \in DOMAIN g : g[i] # 0})

\* C32: in every state reached from the default start the grid holds exactly
\* one hub cell; a move or an upgrade leaves the number of non-empty cells as
\* it was, and the number grows only by a place, by one.
C32_OneHubAndCellCount ==
    [][ /\ RefPlacedCount(grid', "grid-hall") = 1
        /\ RefNonEmpty(grid') # RefNonEmpty(grid) =>
              /\ RefNonEmpty(grid') = RefNonEmpty(grid) + 1
              /\ \E item \in Names, i \in Cells : Place(item, i)
              /\ ~Upgrade
              /\ ~(\E from \in Cells, i \in Cells : Move(from, i))
    ]_vars

\* C33: in every state reached from the default start, every building name
\* listed in the unlock record of the highest hub level has at most
\* countAllowed cells in the grid.
C33_PurchaseLimitsKept ==
    \A n \in RefListed(RefHubLevel(grid)) :
        RefPlacedCount(grid, n) <= RefAllowedCount(RefHubLevel(grid), n)

\* C34: in every state reached from the default start, a collect that
\* changes the state moves the whole pending amount of the selected mine to
\* the pool and leaves the mine without a yield-map entry.
C34_CollectDrainsMine ==
    [][ (Collect /\ <<bits, mineUncollected>>' # <<bits, mineUncollected>>) =>
          /\ bits' = bits + Get(mineUncollected, activeElement.index)
          /\ activeElement.index \notin DOMAIN mineUncollected'
    ]_vars

\* C35: while the session is Running and the opponent is alive, the player
\* and the opponent do not stand on the same point and no point is in both
\* trails; two agents stepping onto the same free point in one step do not
\* both survive.
C35_AgentsNeverShareAPoint ==
    (Session = "Running" /\ ~opponentDead /\ opponentPos # NoPos) =>
        /\ playerPos # opponentPos
        /\ Range(playerTrail) \cap Range(opponentTrail) = {}

\* the direction of the move from point p to the neighbouring point q
RefDirBetween(p, q) ==
    CASE q.x = p.x + 1 -> "right" [] q.x = p.x - 1 -> "left"
      [] q.y = p.y + 1 -> "down"  [] OTHER -> "up"
\* the direction of the player's previous move; before the first step the
\* initial facing
RefLastMove ==
    IF Len(playerTrail) >= 2
    THEN RefDirBetween(playerTrail[Len(playerTrail) - 1], playerTrail[Len(playerTrail)])
    ELSE "right"

\* C36: whatever facing requests come between the steps and before the
\* start, a step never moves the player in the exact reverse of its previous
\* move, and the first step never moves it left.
C36_NoReverseMove ==
    [][ (Step /\ playerPos' # playerPos) =>
            RefDirBetween(playerPos, playerPos') # RefReverse(RefLastMove)
    ]_vars

\* what is left of a session: the points of the arena in no trail, counted
\* after the opponent's elimination, which clears its trail
RefArenaPoints == 16 * 16
RefSessionRank ==
    (IF opponentDead THEN 0 ELSE RefArenaPoints + 1)
        + RefArenaPoints - Cardinality(RefTrailPoints)

C38_OpponentDiesOnlyWhenBlocked ==
    [][ (Step /\ opponentPos # NoPos /\ ~opponentDead) =>
          (opponentDead' <=> \A k \in 1..4 : ~RefFree(RefCandidates(opponentDir)[k]))
    ]_vars

\* the opponent turned up in front of the storage at cell 6 and moves on,
\* alive, after two steps
C38_Witness ==
    /\ steps = 2
    /\ ~opponentDead
    /\ opponentDir = "up"
    /\ opponentPos = [x |-> 14, y |-> 0]

\* p is a point of the arena outside every cell holding a non-hub building
RefOpenPoint(p) ==
    /\ p # NoPos
    /\ ~RefOutside(p)
    /\ ~RefInBuilding(sectorGrid, p)

\* C39: in every arena state after reset, every point of both trails lies
\* inside the arena and in no cell holding a non-hub building, the player's
\* position is the last point of the player's trail, and while the opponent
\* is alive its position is the last point of its trail.
C39_TrailsWellFormed ==
    /\ \A p \in RefTrailPoints : RefOpenPoint(p)
    /\ playerTrail # <<>>
    /\ playerPos = playerTrail[Len(playerTrail)]
    /\ ~opponentDead =>
          /\ opponentTrail # <<>>
          /\ opponentPos = opponentTrail[Len(opponentTrail)]

\* three steps in, both agents moved in every step: the player from cell 57
\* to the right through the hub cell, the opponent from cell 7 left, up and
\* right around the storage at cell 6
C39_Witness ==
    /\ steps = 3
    /\ ~opponentDead
    /\ Len(playerTrail) = 4
    /\ Len(opponentTrail) = 4
    /\ playerTrail[1] = [x |-> 3, y |-> 15]
    /\ RefInHub(sectorGrid, playerTrail[2])
    /\ opponentTrail[1] = [x |-> 15, y |-> 1]
    /\ opponentPos = [x |-> 15, y |-> 0]

====
